---- MODULE Spec2Model ----
(***************************************************************************)
(* CamTrawlMetadata: the metadata engine of the CamTrawl downloader.       *)
(* The engine object (self), the SQLite deployment store (db), the Qt      *)
(* connection registry (registry) and the image files on disk (fs) are the *)
(* state; open, close, query, createMark, removeMark, setDiscarded and     *)
(* deleteDiscardedImages are the actions.                                  *)
(***************************************************************************)
EXTENDS Integers, Sequences, FiniteSets, TLC

\* ---------------------------------------------------------------- bounds
\* frame numbers are 1..MaxFrame; frame n is triggered at clock tick n
MaxFrame == 2
\* the marks table holds at most MaxMarkRows rows
MaxMarkRows == 2

\* ------------------------------------------------------- program constants
\* clear(): self.startImage = -1, the "not yet latched" sentinel
StartImageUnset == -1
\* clear(): self.endImage = 0
EndImageUnset == 0
\* query(): startTimeStr default "1900-01-01 01:00:00", as a clock tick
DefaultStartTick == 0
\* query(): endTimeStr default "2999-01-01 01:00:00", as a clock tick
DefaultEndTick == 2999

\* ------------------------------------------------------------ value domains
Frames == 1..MaxFrame
CameraNames == {"camA", "camB"}
Texts == {"x", "y"}
\* Python None for a datetime argument or attribute
NoneT == <<>>
\* an empty dict
EmptyMap == <<>>
\* Python values of more than one type, tagged with the type
PyNone == <<"None">>
PyStr(text) == <<"str", text>>
PyFloat(x) == <<"float", x>>
PyInt(n) == <<"int", n>>
\* open()'s default dbConnectionName argument
DefaultConnectionName == "CTMetadata"
\* the value of self.dbConnectionName before open and after close
NoName == "None"
\* in the registry, in place of the path: a connection that was closed and
\* not removed, and an open one whose transaction was begun and not ended
ClosedConnection == "closed"
PendingConnection == "pending"
\* deployment paths given to open(): one with a metadata file, one without
GoodPath == "deployment"
MissingPath == "nowhere"

\* ------------------------------------------------------------- timestamps
\* A stored TEXT timestamp is <<tick, sfx>>: tick stands for the
\* "YYYY-MM-DD HH:MM:SS" part, sfx for what follows it: 0 nothing,
\* 1 ".000000", 2 ".500000".  A datetime object is <<tick, half>> with
\* half = 1 for 500000 microseconds.

\* SQLite compares TEXT with memcmp, a longer string after its own prefix
TextLeq(a, b) == a[1] < b[1] \/ (a[1] = b[1] /\ a[2] <= b[2])

\* datetime.strftime("%Y-%m-%d %H:%M:%S"): the microseconds are not printed
strftime(dt) == <<dt[1], 0>>

\* datetime.strptime(text, "%Y-%m-%d %H:%M:%S.%f") needs the fractional part
Parses(text) == text[2] # 0

strptime(text) == <<text[1], text[2] - 1>>

\* a sum that leaves the offset out
AddHoursNone(dt, timeOffset) == dt

\* recordedTime + datetime.timedelta(hours=timeOffset); one tick is one hour
AddHours(dt, timeOffset) == <<dt[1] + timeOffset, dt[2]>>

\* datetime comparison
DtLess(a, b) == a[1] < b[1] \/ (a[1] = b[1] /\ a[2] < b[2])

\* the ValueError strptime raises on a text without the fractional part
BadTimeData == "ValueError: time data does not match format"

\* the ValueError min() and max() raise on an empty key list
EmptySequence == "ValueError: min() arg is an empty sequence"

\* float(text) of a deployment parameter: <<TRUE, value>> or <<FALSE, 0>>
ParseFloat(text) ==
    CASE text = "0" -> <<TRUE, 0>>
      [] text = "1" -> <<TRUE, 1>>
      [] text = "2" -> <<TRUE, 2>>
      [] text = "3" -> <<TRUE, 3>>
      [] text = "7" -> <<TRUE, 7>>
      [] text = "15" -> <<TRUE, 15>>
      [] text = "22" -> <<TRUE, 22>>
      [] OTHER -> <<FALSE, 0>>

\* ---------------------------------------------------------------- helpers
RECURSIVE SortedSeq(_)
SortedSeq(S) ==
    IF S = {} THEN <<>>
    ELSE LET m == CHOOSE x \in S : \A y \in S : x <= y
         IN <<m>> \o SortedSeq(S \ {m})

Last(seq) == seq[Len(seq)]

SeqRange(seq) == {seq[i] : i \in 1..Len(seq)}

RECURSIVE SelectSeqBy(_, _)
\* rows of a set in ascending (number, camera) order, the order of the
\* (number, camera) primary-key index
SelectSeqBy(rows, cams) ==
    IF rows = {} THEN <<>>
    ELSE LET n == CHOOSE x \in {r.number : r \in rows} :
                      \A y \in {r.number : r \in rows} : x <= y
             c == CHOOSE i \in 1..Len(cams) :
                      /\ \E r \in rows : r.number = n /\ r.camera = cams[i]
                      /\ \A j \in 1..(i - 1) :
                            ~\E r \in rows : r.number = n /\ r.camera = cams[j]
             row == CHOOSE r \in rows : r.number = n /\ r.camera = cams[c]
         IN <<row>> \o SelectSeqBy(rows \ {row}, cams)

\* camera names in ascending order
NameOrder == <<"camA", "camB">>

VARIABLES self, db, registry, fs, last

vars == <<self, db, registry, fs, last>>


\* ------------------------------------------------------------- the engine
\* __init__: the attributes of a new CamTrawlMetadata object
NewEngine ==
    [ deploymentPath |-> "", dbFilename |-> "", imageExtension |-> "",
      dbConnectionName |-> NoName,
      startImage |-> StartImageUnset, endImage |-> EndImageUnset,
      startTime |-> NoneT, endTime |-> NoneT,
      cameras |-> <<>>, imageData |-> EmptyMap, marks |-> EmptyMap,
      sensorData |-> EmptyMap, nDroppedImages |-> 0, droppedData |-> EmptyMap,
      deploymentData |-> EmptyMap, asyncData |-> EmptyMap,
      imageNumbers |-> <<>>, headerOrder |-> EmptyMap,
      locationDefault |-> <<PyNone, PyNone>> ]

\* a clear() that forgets the marks
clearKeepsMarks(s) ==
    [s EXCEPT !.startImage = StartImageUnset, !.endImage = EndImageUnset,
              !.startTime = NoneT, !.endTime = NoneT,
              !.cameras = <<>>, !.imageData = EmptyMap,
              !.sensorData = EmptyMap, !.nDroppedImages = 0,
              !.droppedData = EmptyMap, !.deploymentData = EmptyMap,
              !.asyncData = EmptyMap, !.imageNumbers = <<>>,
              !.headerOrder = EmptyMap]

\* clear(): every attribute that query fills is reset
clear(s) ==
    [s EXCEPT !.startImage = StartImageUnset, !.endImage = EndImageUnset,
              !.startTime = NoneT, !.endTime = NoneT,
              !.cameras = <<>>, !.imageData = EmptyMap, !.marks = EmptyMap,
              !.sensorData = EmptyMap, !.nDroppedImages = 0,
              !.droppedData = EmptyMap, !.deploymentData = EmptyMap,
              !.asyncData = EmptyMap, !.imageNumbers = <<>>,
              !.headerOrder = EmptyMap]

\* the attributes that make up the snapshot query builds
Snapshot(s) ==
    [ startImage |-> s.startImage, endImage |-> s.endImage,
      startTime |-> s.startTime, endTime |-> s.endTime,
      cameras |-> s.cameras, imageData |-> s.imageData, marks |-> s.marks,
      sensorData |-> s.sensorData, nDroppedImages |-> s.nDroppedImages,
      droppedData |-> s.droppedData, deploymentData |-> s.deploymentData,
      asyncData |-> s.asyncData, imageNumbers |-> s.imageNumbers,
      headerOrder |-> s.headerOrder ]

\* ---------------------------------------------------------------- the store
\* what a statement on an invalid connection sees: no row of any table
NoRows ==
    [ cameras |-> <<>>, images |-> {}, dropped |-> {}, sensor_data |-> <<>>,
      async_data |-> {}, marks |-> <<>>, deployment_data |-> EmptyMap,
      deployment |-> [columns |-> {}, rows |-> <<>>] ]

\* QSqlDatabase.database(name) is a valid open connection
Connected(reg, name) == name \in DOMAIN reg /\ reg[name] # ClosedConnection

\* another connection holds the write lock of the store: statements that
\* write fail, statements that read see what was committed
Locked(reg) == \E n \in DOMAIN reg : reg[n] = PendingConnection

\* the rows QSqlQuery(sql, db) reads through the engine's connection
View(store, reg, name) ==
    IF Connected(reg, name)
    THEN [ cameras |-> store.cameras, images |-> store.images,
           dropped |-> store.dropped, sensor_data |-> store.sensor_data,
           async_data |-> store.async_data, marks |-> store.marks,
           deployment_data |-> store.deployment_data,
           deployment |-> store.deployment ]
    ELSE NoRows

\* ------------------------------------------------------------------ query
\* timeClause: time between datetime(startTimeStr) and datetime(endTimeStr)
TimeClause(startTime, endTime) ==
    [ lo |-> IF startTime # NoneT THEN strftime(startTime)
             ELSE <<DefaultStartTick, 0>>,
      hi |-> IF endTime # NoneT THEN strftime(endTime)
             ELSE <<DefaultEndTick, 0>> ]

InTimeClause(text, tc) == TextLeq(tc.lo, text) /\ TextLeq(text, tc.hi)

\* discardClause: (discarded IS NULL or discarded=0)
DiscardClause(row) == row.discarded \in {"NULL", "0"}

\* the WHERE clause of the per-camera image SELECT
ImageSelected(row, camera, tc, returnDiscards) ==
    /\ row.camera = camera
    /\ row.still_image = 1
    /\ (returnDiscards \/ DiscardClause(row))
    /\ InTimeClause(row.time, tc)

\* SELECT DISTINCT number FROM dropped; query.value(0) of the first row
CountDropped(r, view) ==
    IF view.dropped = {} THEN [r EXCEPT !.self.nDroppedImages = 0]
    ELSE [r EXCEPT !.self.nDroppedImages =
              CHOOSE n \in {d.number : d \in view.dropped} :
                  \A m \in {d.number : d \in view.dropped} : n <= m]

RECURSIVE FirstSeen(_, _)
\* SELECT DISTINCT camera FROM images, in the order first met
FirstSeen(rows, seen) ==
    IF rows = <<>> THEN seen
    ELSE FirstSeen(Tail(rows),
                   IF Head(rows).camera \in SeqRange(seen) THEN seen
                   ELSE Append(seen, Head(rows).camera))

\* SELECT * from cameras, else the cameras named by the image rows
LoadCameras(r, view) ==
    IF view.cameras # <<>> THEN [r EXCEPT !.self.cameras = view.cameras]
    ELSE [r EXCEPT !.self.cameras =
              FirstSeen(SelectSeqBy(view.images, NameOrder), <<>>)]

LoadDeploymentData(r, view) ==
    [r EXCEPT !.self.deploymentData = view.deployment_data]

\* an offset that falls back to two hours
TimeOffsetOther(s) ==
    IF "hours_offset_to_utc" \in DOMAIN s.deploymentData
    THEN LET f == ParseFloat(s.deploymentData["hours_offset_to_utc"])
         IN IF f[1] THEN f[2] ELSE 2
    ELSE 2

\* float(self.deploymentData['hours_offset_to_utc']), 0 when that raises
TimeOffset(s) ==
    IF "hours_offset_to_utc" \in DOMAIN s.deploymentData
    THEN LET f == ParseFloat(s.deploymentData["hours_offset_to_utc"])
         IN IF f[1] THEN f[2] ELSE 0
    ELSE 0

RECURSIVE StoreDropped(_, _, _)
StoreDropped(r, rows, timeOffset) ==
    IF rows = <<>> \/ r.exc # "none" THEN r
    ELSE LET row == Head(rows)
         IN IF ~Parses(row.time) THEN [r EXCEPT !.exc = BadTimeData]
            ELSE StoreDropped(
                   [r EXCEPT !.self.droppedData[row.camera] =
                        (row.number :> AddHours(strptime(row.time), timeOffset)) @@ @],
                   Tail(rows), timeOffset)

\* droppedData: one dict per camera of the dropped table, then every row
LoadDropped(r, view, timeOffset) ==
    StoreDropped(
        [r EXCEPT !.self.droppedData =
             [c \in {d.camera : d \in view.dropped} |-> EmptyMap]],
        SelectSeqBy(view.dropped, NameOrder), timeOffset)

\* a startImage that follows the smallest number instead of the first
LatchStartImageMin(startImage, number) ==
    IF startImage = StartImageUnset \/ number < startImage THEN number ELSE startImage

\* if (self.startImage == -1): self.startImage = query.value(0)
LatchStartImage(startImage, number) ==
    IF startImage = StartImageUnset THEN number ELSE startImage

\* an endImage that follows the largest number instead of the last
NextEndImageMax(endImage, number) ==
    IF number > endImage THEN number ELSE endImage

\* self.endImage = query.value(0), for every row
NextEndImage(endImage, number) == number

RECURSIVE StoreImages(_, _, _, _)
\* the while query.next() loop over one camera's selected rows
StoreImages(r, camera, rows, timeOffset) ==
    IF rows = <<>> \/ r.exc # "none" THEN r
    ELSE LET row == Head(rows)
             r1 == [r EXCEPT !.self.startImage = LatchStartImage(@, row.number)]
         IN IF ~Parses(row.time) THEN [r1 EXCEPT !.exc = BadTimeData]
            ELSE StoreImages(
                   [r1 EXCEPT !.self.imageData[camera] =
                        (row.number :> << strptime(row.time),
                                          AddHours(strptime(row.time), timeOffset) >>) @@ @,
                              !.self.endImage = NextEndImage(@, row.number)],
                   camera, Tail(rows), timeOffset)

\* the numbers of one camera's selected rows, ORDER BY number ASC
SelectedRows(view, camera, tc, returnDiscards) ==
    SelectSeqBy({row \in view.images : ImageSelected(row, camera, tc, returnDiscards)},
                NameOrder)

RECURSIVE LoadImages(_, _, _, _, _, _)
\* for camera in self.cameras: self.imageData[camera] = {} and its rows
LoadImages(r, cams, view, tc, returnDiscards, timeOffset) ==
    IF cams = <<>> \/ r.exc # "none" THEN r
    ELSE LoadImages(
           StoreImages([r EXCEPT !.self.imageData = (Head(cams) :> EmptyMap) @@ @],
                       Head(cams),
                       SelectedRows(view, Head(cams), tc, returnDiscards),
                       timeOffset),
           Tail(cams), view, tc, returnDiscards, timeOffset)

\* start_set = set(self.imageData[camera].keys()), camera being the loop
\* variable left by the image loop; start_set.intersection(...) builds a new
\* set that is dropped, so start_set is never narrowed
CommonImageNumbers(imageData, cams) == DOMAIN imageData[Last(cams)]

\* an empty self.cameras leaves the loop variable unbound
BuildImageNumbers(r) ==
    IF r.exc # "none" THEN r
    ELSE IF r.self.cameras = <<>> THEN [r EXCEPT !.exc = "UnboundLocalError"]
    ELSE [r EXCEPT !.self.imageNumbers =
              SortedSeq(CommonImageNumbers(r.self.imageData, r.self.cameras))]

\* a frame window without its upper bound
InFrameWindowFrom(number, s) == s.startImage <= number

\* im.number >= startImage AND im.number <= endImage
InFrameWindow(number, s) == s.startImage <= number /\ number <= s.endImage

\* sensorData: 'time', 'utc_time', and one dict of headers per sensor id
SensorKeys(view) ==
    [k \in {"time", "utc_time"} \cup {sd.sensor_id : sd \in SeqRange(view.sensor_data)} |->
        IF k \in {"time", "utc_time"} THEN EmptyMap
        ELSE [h \in {sd.header : sd \in {x \in SeqRange(view.sensor_data) : x.sensor_id = k}}
                 |-> EmptyMap]]

\* the order of the header keys of each sensor's dict: the order in which
\* SELECT DISTINCT header ... WHERE sensor_id = k first meets them
HeaderOrder(view) ==
    [k \in {sd.sensor_id : sd \in SeqRange(view.sensor_data)} |->
        LET rows == SelectSeq(view.sensor_data, LAMBDA sd : sd.sensor_id = k)
            F[i \in 0..Len(rows)] ==
                IF i = 0 THEN <<>>
                ELSE IF \E j \in 1..Len(F[i - 1]) : F[i - 1][j] = rows[i].header
                     THEN F[i - 1]
                     ELSE Append(F[i - 1], rows[i].header)
        IN F[Len(rows)]]

RECURSIVE JoinSensor(_, _, _)
\* FROM images im, sensor_data sd WHERE im.number = sd.number AND window
JoinSensor(ims, sds, s) ==
    IF ims = <<>> THEN <<>>
    ELSE LET im == Head(ims)
             hit(i) == sds[i].number = im.number /\ InFrameWindow(im.number, s)
             F[i \in 0..Len(sds)] ==
                 IF i = 0 THEN <<>>
                 ELSE IF hit(i)
                      THEN Append(F[i - 1], [number |-> im.number, time |-> im.time,
                                             sensor_id |-> sds[i].sensor_id,
                                             header |-> sds[i].header,
                                             data |-> sds[i].data])
                      ELSE F[i - 1]
         IN F[Len(sds)] \o JoinSensor(Tail(ims), sds, s)

RECURSIVE StoreSensor(_, _, _)
StoreSensor(r, rows, timeOffset) ==
    IF rows = <<>> \/ r.exc # "none" THEN r
    ELSE LET row == Head(rows)
         IN IF ~Parses(row.time) THEN [r EXCEPT !.exc = BadTimeData]
            ELSE StoreSensor(
                   [r EXCEPT !.self.sensorData[row.sensor_id][row.header] =
                                 (row.number :> row.data) @@ @,
                             !.self.sensorData["time"] =
                                 (row.number :> strptime(row.time)) @@ @,
                             !.self.sensorData["utc_time"] =
                                 (row.number :> AddHours(strptime(row.time), timeOffset)) @@ @],
                   Tail(rows), timeOffset)

LoadSensorData(r, view, timeOffset) ==
    IF r.exc # "none" THEN r
    ELSE StoreSensor([r EXCEPT !.self.sensorData = SensorKeys(view),
                               !.self.headerOrder = HeaderOrder(view)],
                     JoinSensor(SelectSeqBy(view.images, NameOrder),
                                view.sensor_data, r.self),
                     timeOffset)

\* asyncData: one dict of headers per sensor id, each with three lists
AsyncKeys(view) ==
    [k \in {a.sensor_id : a \in view.async_data} |->
        [h \in {a.header : a \in {x \in view.async_data : x.sensor_id = k}} |->
            [time |-> <<>>, utc_time |-> <<>>, data |-> <<>>]]]

RECURSIVE OrderByTime(_)
\* ORDER BY time, the TEXT column
OrderByTime(rows) ==
    IF rows = {} THEN <<>>
    ELSE LET a == CHOOSE x \in rows : \A y \in rows : TextLeq(x.time, y.time)
         IN <<a>> \o OrderByTime(rows \ {a})

RECURSIVE StoreAsync(_, _, _)
StoreAsync(r, rows, timeOffset) ==
    IF rows = <<>> \/ r.exc # "none" THEN r
    ELSE LET row == Head(rows)
         IN IF ~Parses(row.time) THEN [r EXCEPT !.exc = BadTimeData]
            ELSE StoreAsync(
                   [r EXCEPT !.self.asyncData[row.sensor_id][row.header] =
                        [time |-> Append(@.time, strptime(row.time)),
                         utc_time |-> Append(@.utc_time,
                                             AddHours(strptime(row.time), timeOffset)),
                         data |-> Append(@.data, row.data)]],
                   Tail(rows), timeOffset)

LoadAsyncData(r, view, tc, timeOffset) ==
    IF r.exc # "none" THEN r
    ELSE StoreAsync([r EXCEPT !.self.asyncData = AsyncKeys(view)],
                    OrderByTime({a \in view.async_data : InTimeClause(a.time, tc)}),
                    timeOffset)

\* WHERE frame_number >= startImage AND frame_number <= endImage
MarkSelected(row, s) == InFrameWindow(row.frame_number, s)

RECURSIVE StoreMarks(_, _, _)
\* self.marks.update({frame_number: mark_description}) for every selected row
StoreMarks(marks, rows, s) ==
    IF rows = <<>> THEN marks
    ELSE StoreMarks(
           IF MarkSelected(Head(rows), s)
           THEN (Head(rows).frame_number :> Head(rows).mark_description) @@ marks
           ELSE marks,
           Tail(rows), s)

LoadMarks(r, view) ==
    IF r.exc # "none" THEN r
    ELSE [r EXCEPT !.self.marks = StoreMarks(@, view.marks, r.self)]

MinOf(S) == CHOOSE x \in S : \A y \in S : x <= y

MaxOf(S) == CHOOSE x \in S : \A y \in S : x >= y

RECURSIVE TimespanOfFirst(_, _, _)
\* a time span taken from the first camera alone
TimespanOfFirst(s, cams, span) ==
    IF cams = <<>> THEN [span |-> span, exc |-> "none"]
    ELSE IF DOMAIN s.imageData[Head(cams)] = {}
         THEN [span |-> span, exc |-> EmptySequence]
    ELSE LET frames == DOMAIN s.imageData[Head(cams)]
             startTime == s.imageData[Head(cams)][MinOf(frames)][1]
             endTime == s.imageData[Head(cams)][MaxOf(frames)][1]
         IN TimespanOfFirst(s, Tail(cams),
                     << IF span[1] = NoneT THEN startTime ELSE span[1],
                        IF span[2] = NoneT THEN endTime ELSE span[2] >>)

RECURSIVE Timespan(_, _, _)
\* getTimespan: min()/max() of an empty key list raise ValueError.  (Its
\* "if not self.imageData: self.query()" is not taken here: imageData has a
\* key for every camera, and with no camera query has already raised.)
Timespan(s, cams, span) ==
    IF cams = <<>> THEN [span |-> span, exc |-> "none"]
    ELSE IF DOMAIN s.imageData[Head(cams)] = {}
         THEN [span |-> span, exc |-> EmptySequence]
    ELSE LET frames == DOMAIN s.imageData[Head(cams)]
             startTime == s.imageData[Head(cams)][MinOf(frames)][1]
             endTime == s.imageData[Head(cams)][MaxOf(frames)][1]
         IN Timespan(s, Tail(cams),
                     << IF span[1] = NoneT \/ DtLess(startTime, span[1])
                        THEN startTime ELSE span[1],
                        IF span[2] = NoneT \/ DtLess(span[2], endTime)
                        THEN endTime ELSE span[2] >>)

getTimespan(s) == Timespan(s, s.cameras, <<NoneT, NoneT>>)

\* self.startTime, self.endTime = self.getTimespan()
SetTimespan(r) ==
    IF r.exc # "none" THEN r
    ELSE LET ts == getTimespan(r.self)
         IN IF ts.exc # "none" THEN [r EXCEPT !.exc = ts.exc]
            ELSE [r EXCEPT !.self.startTime = ts.span[1],
                           !.self.endTime = ts.span[2]]

\* query() past its connection-name guard: the attributes it leaves and the
\* exception it raises ("none" when it returns)
QueryBody(s, view, startTime, endTime, returnDiscards) ==
    LET tc == TimeClause(startTime, endTime)
        r0 == [self |-> clear(s), exc |-> "none"]
        r1 == CountDropped(r0, view)
        r2 == LoadCameras(r1, view)
        r3 == LoadDeploymentData(r2, view)
        timeOffset == TimeOffset(r3.self)
        r4 == LoadDropped(r3, view, timeOffset)
        r5 == LoadImages(r4, r4.self.cameras, view, tc, returnDiscards, timeOffset)
        r6 == BuildImageNumbers(r5)
        r7 == LoadSensorData(r6, view, timeOffset)
        r8 == LoadAsyncData(r7, view, tc, timeOffset)
        r9 == LoadMarks(r8, view)
    IN SetTimespan(r9)

\* ------------------------------------------------------------------- open
\* the tables open() creates when db.tables() lacks them
CreatedTables == {"videos", "deployment", "marks", "deployment_data", "async_data"}

\* the columns open() gives the deployment table that hold the location
\* and the depth
DeploymentColumns ==
    {"deployment_latitude", "deployment_longitude", "max_deployment_depth"}

\* the columns open() adds when PRAGMA table_info lacks them
AddedColumns ==
    { <<"cameras", "rotation">>, <<"cameras", "display_exposure">>,
      <<"images", "exposure_us">>, <<"images", "discarded">>,
      <<"images", "md5_checksum">>, <<"images", "gain">>,
      <<"images", "still_image">>, <<"images", "video_frame">> }

\* a pass that alters without looking at PRAGMA table_info
StatementsUnguarded(store) ==
    <<CreatedTables \ store.tables, AddedColumns>>

\* the statements the pass issues: CREATE TABLE for each table db.tables()
\* lacks, ALTER TABLE ADD COLUMN for each column PRAGMA table_info lacks
Statements(store) ==
    <<CreatedTables \ store.tables, {tc \in AddedColumns : tc \notin store.columns}>>

\* a pass that writes the default parameters again
MigrateResetParameters(store) ==
    [store EXCEPT
        !.tables = @ \cup CreatedTables,
        !.columns = @ \cup {tc \in AddedColumns : tc[1] \in store.tables},
        !.deployment_data = ("hours_offset_to_utc" :> "0")]

\* the CREATE TABLE / ALTER TABLE pass; a new deployment_data table gets
\* the default hours_offset_to_utc row
Migrate(store) ==
    [store EXCEPT
        !.tables = @ \cup Statements(store)[1],
        !.columns = @ \cup {tc \in Statements(store)[2] : tc[1] \in store.tables},
        !.deployment_data =
            IF "deployment_data" \in store.tables THEN @
            ELSE ("hours_offset_to_utc" :> "0") @@ @,
        !.deployment =
            IF "deployment" \in store.tables THEN @
            ELSE [columns |-> DeploymentColumns, rows |-> <<>>]]

imageTypes == <<".jpg", ".jpeg", ".tif", ".tiff">>

\* str.lower() of a stored image_file_type value
Lower(text) ==
    CASE text = "JPG" -> "jpg"
      [] text = ".TIF" -> ".tif"
      [] text = "GPS" -> "gps"
      [] text = "NAV" -> "nav"
      [] text = "A" -> "a"
      [] text = "V" -> "v"
      [] text = "First" -> "first"
      [] text = "MIDDLE" -> "middle"
      [] OTHER -> text

\* str.upper()
Upper(text) ==
    CASE text = "gps" -> "GPS"
      [] text = "nav" -> "NAV"
      [] OTHER -> text

\* "." + value unless the value starts with a dot
WithDot(text) ==
    CASE text = "jpg" -> ".jpg"
      [] text = "jpeg" -> ".jpeg"
      [] text = "tif" -> ".tif"
      [] text = "tiff" -> ".tiff"
      [] OTHER -> text

\* self.imageExtension[1:]
StripDot(ext) ==
    CASE ext = ".jpg" -> "jpg"
      [] ext = ".jpeg" -> "jpeg"
      [] ext = ".tif" -> "tif"
      [] ext = ".tiff" -> "tiff"
      [] OTHER -> ext

\* os.path.isfile(imagePath + type) for the file of image row (camera, number)
IsImageFile(files, camera, number, type) ==
    <<camera, number>> \in files.present /\ files.ext = type

\* the extension found by probing imageTypes in order, "None" when none exists
ProbeExtension(files, camera, number) ==
    IF \E i \in 1..Len(imageTypes) : IsImageFile(files, camera, number, imageTypes[i])
    THEN imageTypes[MinOf({i \in 1..Len(imageTypes) :
                              IsImageFile(files, camera, number, imageTypes[i])})]
    ELSE "None"

\* the image-type resolution that ends open(): the extension, and the
\* deployment_data table after the INSERT of a probed type
ResolveExtension(store, files) ==
    LET dd == store.deployment_data
        stills == SelectSeqBy({im \in store.images :
                                  DiscardClause(im) /\ im.still_image = 1}, NameOrder)
    IN IF "image_file_type" \in DOMAIN dd /\ dd["image_file_type"] # ""
       THEN [ext |-> WithDot(Lower(dd["image_file_type"])), deployment_data |-> dd]
       ELSE IF stills = <<>> THEN [ext |-> "", deployment_data |-> dd]
       ELSE LET found == ProbeExtension(files, stills[1].camera, stills[1].number)
            IN IF found = "None" THEN [ext |-> "None", deployment_data |-> dd]
               ELSE [ext |-> found,
                     \* deployment_parameter is the primary key: the INSERT
                     \* fails when an empty image_file_type row is there
                     deployment_data |->
                         IF "image_file_type" \in DOMAIN dd THEN dd
                         ELSE ("image_file_type" :> StripDot(found)) @@ dd]

\* the record of the operation just performed and the exception it raised
\* (was: for createMark the createMark call it directly follows, for query
\* the frames whose marks the snapshot held before and does not hold after)
Did(op, args, exc) ==
    [op |-> op, args |-> args, exc |-> exc, was |-> <<>>, ret |-> <<>>]

\* open(deploymentPath): the name is stored before the file is looked for
\* (was: the tables created, the columns added, and whether this open
\* directly follows a successful open and its close)
open(s, store, reg, files, deploymentPath) ==
    IF deploymentPath = GoodPath /\ store.exists
    THEN LET migrated == IF Locked(reg) THEN store ELSE Migrate(store)
             res == ResolveExtension(migrated, files)
         IN [self |-> [s EXCEPT !.deploymentPath = deploymentPath,
                                !.dbConnectionName = DefaultConnectionName,
                                !.dbFilename = deploymentPath,
                                !.imageExtension = res.ext],
             db |-> IF Locked(reg) THEN store
                    ELSE [migrated EXCEPT !.deployment_data = res.deployment_data],
             registry |-> (DefaultConnectionName :> deploymentPath) @@ reg,
             exc |-> "none"]
    ELSE [self |-> [s EXCEPT !.deploymentPath = deploymentPath,
                             !.dbConnectionName = DefaultConnectionName],
          db |-> store, registry |-> reg, exc |-> "dbError"]

Open(deploymentPath) ==
    LET r == open(self, db, registry, fs, deploymentPath)
    IN /\ self' = r.self
       /\ db' = r.db
       /\ registry' = r.registry
       /\ last' = IF r.exc = "none"
                  THEN [Did("open", <<deploymentPath>>, "none") EXCEPT
                          !.was = <<Statements(db)[1], Statements(db)[2],
                                    last.op = "close" /\ last.was = <<"open">> >>]
                  ELSE Did("open", <<deploymentPath>>, r.exc)
       /\ UNCHANGED fs

\* close(): db.close(), removeDatabase(name), clear()
\* (was: <<"open">> when it directly follows a successful open)
close(s, reg) ==
    IF s.dbConnectionName = NoName THEN [self |-> s, registry |-> reg]
    ELSE [self |-> [clear(s) EXCEPT !.dbConnectionName = NoName,
                                    !.deploymentPath = "",
                                    !.dbFilename = "",
                                    !.imageExtension = ""],
          registry |-> [n \in DOMAIN reg \ {s.dbConnectionName} |-> reg[n]]]

Close ==
    /\ self' = close(self, registry).self
    /\ registry' = close(self, registry).registry
    /\ last' = [Did("close", <<>>, "none") EXCEPT
                  !.was = IF last.op = "open" /\ last.exc = "none"
                          THEN <<"open">> ELSE <<>>]
    /\ UNCHANGED <<db, fs>>

\* query(startTime, endTime, returnDiscards)
Query(startTime, endTime, returnDiscards) ==
    /\ IF self.dbConnectionName = NoName
       THEN /\ UNCHANGED self
            /\ last' = Did("query", <<startTime, endTime, returnDiscards>>, "none")
       ELSE LET r == QueryBody(self, View(db, registry, self.dbConnectionName),
                               startTime, endTime, returnDiscards)
            IN /\ self' = r.self
               /\ last' = [Did("query", <<startTime, endTime, returnDiscards>>, r.exc)
                             EXCEPT !.was = SortedSeq(DOMAIN self.marks \ DOMAIN r.self.marks)]
    /\ UNCHANGED <<db, registry, fs>>

\* ------------------------------------------------------------------ marks
\* delete from marks where frame_number = frame
DeleteMarkRows(rows, frame) ==
    SelectSeq(rows, LAMBDA row : row.frame_number # frame)

\* del(self.marks[frame])
DelKey(map, key) == [k \in DOMAIN map \ {key} |-> map[k]]

\* removeMark past its connection-name guard, as a function of the engine,
\* the marks table and whether the connection is valid: the delete is sent
\* only when the frame is in self.marks
RemoveMarkBody(s, rows, connected, frame) ==
    IF frame \in DOMAIN s.marks
    THEN [self |-> [s EXCEPT !.marks = DelKey(@, frame)],
          rows |-> IF connected THEN DeleteMarkRows(rows, frame) ELSE rows]
    ELSE [self |-> s, rows |-> rows]

\* a createMark that forgets removeMark(frame)
CreateMarkBodyNoRemove(s, rows, connected, frame, description) ==
    [self |-> [s EXCEPT !.marks = (frame :> description) @@ @],
     rows |-> IF connected
              THEN Append(rows, [frame_number |-> frame,
                                 mark_description |-> description])
              ELSE rows]

\* createMark past its guard: removeMark(frame), the insert, marks.update
CreateMarkBody(s, rows, connected, frame, description) ==
    LET rm == RemoveMarkBody(s, rows, connected, frame)
    IN [self |-> [rm.self EXCEPT !.marks = (frame :> description) @@ @],
        rows |-> IF connected
                 THEN Append(rm.rows, [frame_number |-> frame,
                                       mark_description |-> description])
                 ELSE rm.rows]

\* createMark(frame, description)
CreateMark(frame, description) ==
    /\ IF self.dbConnectionName = NoName
       THEN UNCHANGED <<self, db>>
       ELSE LET cm == CreateMarkBody(self, db.marks,
                                     Connected(registry, self.dbConnectionName),
                                     frame, description)
            IN /\ Len(cm.rows) <= MaxMarkRows
               /\ self' = cm.self
               /\ db' = [db EXCEPT !.marks = cm.rows]
    /\ last' = [Did("createMark", <<frame, description>>, "none")
                  EXCEPT !.was = IF last.op = "createMark" THEN last.args ELSE <<>>]
    /\ UNCHANGED <<registry, fs>>

\* removeMark(frame)
RemoveMark(frame) ==
    /\ IF self.dbConnectionName = NoName
       THEN UNCHANGED <<self, db>>
       ELSE LET rm == RemoveMarkBody(self, db.marks,
                                     Connected(registry, self.dbConnectionName), frame)
            IN /\ self' = rm.self
               /\ db' = [db EXCEPT !.marks = rm.rows]
    /\ last' = Did("removeMark", <<frame>>, "none")
    /\ UNCHANGED <<registry, fs>>

\* ---------------------------------------------------------- discard / trim
\* an UPDATE that reaches the rows of the first camera only
UpdateDiscardedOneCamera(images, startFrame, endFrame, unset) ==
    { IF startFrame <= im.number /\ im.number <= endFrame /\ im.camera = "camA"
      THEN [im EXCEPT !.discarded = IF unset THEN "NULL" ELSE "1"]
      ELSE im : im \in images }

\* an UPDATE whose unset form stops short of endFrame
UpdateDiscardedShortUnset(images, startFrame, endFrame, unset) ==
    { IF startFrame <= im.number /\ (im.number < endFrame \/ (~unset /\ im.number = endFrame))
      THEN [im EXCEPT !.discarded = IF unset THEN "NULL" ELSE "1"]
      ELSE im : im \in images }

\* UPDATE images SET discarded=... WHERE number>=startFrame AND number<=endFrame
UpdateDiscarded(images, startFrame, endFrame, unset) ==
    { IF startFrame <= im.number /\ im.number <= endFrame
      THEN [im EXCEPT !.discarded = IF unset THEN "NULL" ELSE "1"]
      ELSE im : im \in images }

\* setDiscarded(startFrame, endFrame, unset)
\* (was: the setDiscarded call it directly follows)
SetDiscarded(startFrame, endFrame, unset) ==
    /\ IF self.dbConnectionName # NoName /\ Connected(registry, self.dbConnectionName)
       THEN db' = [db EXCEPT !.images = UpdateDiscarded(@, startFrame, endFrame, unset)]
       ELSE UNCHANGED db
    /\ last' = [Did("setDiscarded", <<startFrame, endFrame, unset>>, "none")
                  EXCEPT !.was = IF last.op = "setDiscarded" THEN last.args ELSE <<>>]
    /\ UNCHANGED <<self, registry, fs>>

\* the files os.remove() is given: name + self.imageExtension of every row
\* with discarded=1
DiscardedFiles(images) ==
    {<<im.camera, im.number>> : im \in {x \in images : x.discarded = "1"}}

\* deleteDiscardedImages(): query.value(1) + self.imageExtension raises
\* TypeError when open() left the extension None
DeleteDiscardedImages ==
    LET view == View(db, registry, self.dbConnectionName)
        targets == DiscardedFiles(view.images)
    IN /\ IF self.dbConnectionName = NoName \/ targets = {}
          THEN /\ UNCHANGED fs
               /\ last' = Did("deleteDiscardedImages", <<>>, "none")
          ELSE IF self.imageExtension = "None"
          THEN /\ UNCHANGED fs
               /\ last' = Did("deleteDiscardedImages", <<>>, "TypeError")
          ELSE /\ fs' = [fs EXCEPT !.present =
                            IF self.imageExtension = fs.ext THEN @ \ targets ELSE @]
               /\ last' = Did("deleteDiscardedImages", <<>>, "none")
       /\ UNCHANGED <<self, db, registry>>

\* ------------------------------------------------------- deployment stores
AllTables ==
    {"cameras", "images", "dropped", "sensor_data"} \cup CreatedTables

\* the image row the acquisition writes for frame n of a camera: the cameras
\* are triggered together at tick n, camB's clock reading half a second later
ImageRow(camera, n) ==
    [number |-> n, camera |-> camera,
     time |-> <<n, IF camera = "camA" THEN 1 ELSE 2>>,
     discarded |-> "NULL", still_image |-> 1]

\* one positioning datagram per frame
SensorRows ==
    [n \in Frames |-> [number |-> n, sensor_id |-> "GPS", header |-> "$GPGGA",
                       data |-> "fix"]]

\* one mark on every frame
MarkRows ==
    [n \in Frames |-> [frame_number |-> n, mark_description |-> "x"]]

\* a store of the current schema
Store(cams, images, dropped, asyncs, marks) ==
    [cameras |-> cams, images |-> images, dropped |-> dropped,
     sensor_data |-> SensorRows, async_data |-> asyncs, marks |-> marks,
     deployment_data |-> ("hours_offset_to_utc" :> "0"),
     deployment |-> [columns |-> DeploymentColumns, rows |-> <<>>],
     tables |-> AllTables, columns |-> AddedColumns, exists |-> TRUE]

\* the ways one image row can differ from ImageRow
RowKinds == {"zero", "discarded", "video", "badtime"}

Altered(row, kind) ==
    CASE kind = "zero" -> [row EXCEPT !.discarded = "0"]
      [] kind = "discarded" -> [row EXCEPT !.discarded = "1"]
      [] kind = "video" -> [row EXCEPT !.still_image = 0]
      [] kind = "badtime" -> [row EXCEPT !.time = <<@[1], 0>>]

\* image tables: any set of frames for each camera
PlainImages ==
    { {ImageRow("camA", n) : n \in fa} \cup {ImageRow("camB", n) : n \in fb} :
          fa \in SUBSET Frames, fb \in SUBSET Frames }

FullImages == {ImageRow(c, n) : c \in CameraNames, n \in Frames}

\* dropped-frame and async tables: empty, a well-formed row, a malformed one
DroppedTables ==
    { {},
      {[number |-> 1, camera |-> "camB", time |-> <<1, 2>>]},
      {[number |-> 1, camera |-> "camB", time |-> <<1, 2>>],
       [number |-> MaxFrame, camera |-> "camA", time |-> <<MaxFrame, 0>>]} }

AsyncTables ==
    { {},
      {[time |-> <<1, 1>>, sensor_id |-> "CTControl", header |-> "$CTSV", data |-> "12.1"]},
      {[time |-> <<1, 1>>, sensor_id |-> "CTControl", header |-> "$CTSV", data |-> "12.1"],
       [time |-> <<MaxFrame, 0>>, sensor_id |-> "CTControl", header |-> "$CTSV", data |-> "12.0"]} }

AllFiles == [ext |-> ".jpg", present |-> CameraNames \X Frames]

\* every frame of both cameras, one row altered
AlteredImages ==
    { (FullImages \ {row}) \cup {Altered(row, kind)} :
          row \in FullImages, kind \in RowKinds }

\* the stores the query claims are checked on: a camera registry or none
\* (the older format) over any image table; one altered row; dropped and
\* async rows
QueryStores ==
    { Store(cams, images, {}, {}, MarkRows) :
          cams \in {<<>>, <<"camA", "camB">>}, images \in PlainImages }
    \cup
    { Store(<<"camA", "camB">>, images, {}, {}, MarkRows) : images \in AlteredImages }
    \cup
    { Store(<<"camA", "camB">>, FullImages, dropped, asyncs, MarkRows) :
          dropped \in DroppedTables, asyncs \in AsyncTables }

\* datetime arguments of query, as (startTime, endTime): no bound, any two
\* ticks in order, and an end half a second past the last tick
QueryWindows ==
    {<<NoneT, NoneT>>, <<NoneT, <<MaxFrame, 1>> >>}
    \cup {<< <<p[1], 0>>, <<p[2], 0>> >> : p \in {q \in Frames \X Frames : q[1] <= q[2]}}

InitQuery ==
    /\ self = NewEngine
    /\ db \in QueryStores
    /\ registry = EmptyMap
    /\ fs = AllFiles
    /\ last = Did("init", <<>>, "none")

NextQuery ==
    \/ Open(GoodPath)
    \/ Close
    \/ \E w \in QueryWindows, returnDiscards \in BOOLEAN :
           Query(w[1], w[2], returnDiscards)

SpecQuery == InitQuery /\ [][NextQuery]_vars

\* ------------------------------------------------------------ annotation
\* the stores the mark claims are checked on: every frame of both cameras,
\* no mark or one mark on the last frame
MarkStores ==
    { Store(<<"camA", "camB">>, FullImages, {}, {}, marks) :
          marks \in {<<>>, <<[frame_number |-> MaxFrame, mark_description |-> "x"]>>} }

\* query windows that start at the first tick
MarkWindows ==
    {<<NoneT, NoneT>>} \cup {<< <<1, 0>>, <<e, 0>> >> : e \in Frames}

\* the frames the operator annotates: the first and the last
MarkFrames == {1, MaxFrame}

InitMarks ==
    /\ self = NewEngine
    /\ db \in MarkStores
    /\ registry = EmptyMap
    /\ fs = AllFiles
    /\ last = Did("init", <<>>, "none")

NextMarks ==
    \/ Open(GoodPath)
    \/ Close
    \/ \E w \in MarkWindows : Query(w[1], w[2], FALSE)
    \/ \E frame \in MarkFrames, description \in Texts : CreateMark(frame, description)
    \/ \E frame \in MarkFrames : RemoveMark(frame)

SpecMarks == InitMarks /\ [][NextMarks]_vars

\* ------------------------------------------------------------- life cycle
\* every operation of the engine, from a new engine on a deployment whose
\* store has every frame of both cameras
Init ==
    /\ self = NewEngine
    /\ db \in MarkStores
    /\ registry = EmptyMap
    /\ fs = AllFiles
    /\ last = Did("init", <<>>, "none")

Next ==
    \/ \E path \in {GoodPath, MissingPath} : Open(path)
    \/ Close
    \/ \E returnDiscards \in BOOLEAN : Query(NoneT, NoneT, returnDiscards)
    \/ CreateMark(1, "x")
    \/ RemoveMark(1)
    \/ \E unset \in BOOLEAN : SetDiscarded(1, MaxFrame, unset)
    \/ DeleteDiscardedImages

Spec == Init /\ [][Next]_vars

\* ------------------------------------------------------------------ trim
\* the stores the trim claims are checked on: every frame of both cameras,
\* as acquired or with one row already marked, zeroed or a video frame
TrimStores ==
    { Store(<<"camA", "camB">>, images, {}, {}, <<>>) :
          images \in {FullImages} \cup
                     { (FullImages \ {ImageRow("camB", 1)})
                           \cup {Altered(ImageRow("camB", 1), kind)} :
                       kind \in {"zero", "discarded", "video"} } }

\* the frame ranges the operator trims: the head, everything, and an empty
\* range (start after end)
TrimRanges == {<<1, 1>>, <<1, MaxFrame>>, <<MaxFrame, 1>>}

\* the image files on disk: all of them as .jpg, or the first frame of the
\* first camera gone
TrimFiles ==
    { AllFiles,
      [AllFiles EXCEPT !.present = @ \ {<<"camA", 1>>}] }

InitTrim ==
    /\ self = NewEngine
    /\ db \in TrimStores
    /\ registry = EmptyMap
    /\ fs \in TrimFiles
    /\ last = Did("init", <<>>, "none")

NextTrim ==
    \/ Open(GoodPath)
    \/ Close
    \/ Query(NoneT, NoneT, FALSE)
    \/ \E range \in TrimRanges, unset \in BOOLEAN :
           SetDiscarded(range[1], range[2], unset)
    \/ DeleteDiscardedImages

SpecTrim == InitTrim /\ [][NextTrim]_vars

\* ------------------------------------------------------------- migration
\* the tables the acquisition software has always written
BaseTables == {"cameras", "images", "dropped", "sensor_data"}

\* the schemas of the format's history: the tables and columns present
OlderSchemas ==
    { [tables |-> BaseTables \cup ts, columns |-> cs] :
          ts \in { {}, {"deployment_data"}, CreatedTables \ {"async_data"}, CreatedTables },
          cs \in { {}, {<<"images", "exposure_us">>, <<"images", "discarded">>},
                   AddedColumns \ {<<"images", "video_frame">>}, AddedColumns } }

\* deployment_data tables: the default row alone, another offset, and an
\* image_file_type row as written by different versions
ParameterTables ==
    { ("hours_offset_to_utc" :> "0"),
      ("hours_offset_to_utc" :> "2"),
      ("hours_offset_to_utc" :> "0") @@ ("image_file_type" :> "JPG"),
      ("hours_offset_to_utc" :> "0") @@ ("image_file_type" :> ".TIF"),
      ("hours_offset_to_utc" :> "0") @@ ("image_file_type" :> "tif"),
      ("hours_offset_to_utc" :> "0") @@ ("image_file_type" :> "") }

\* image tables: none, every frame, and the first frame already trimmed
OpenImages ==
    { {}, FullImages,
      (FullImages \ {ImageRow("camA", 1)})
          \cup {Altered(ImageRow("camA", 1), "discarded")} }

\* the stores open() is given: every older schema over a full deployment,
\* and the current schema over the parameter and image tables
OpenStores ==
    { [Store(<<"camA", "camB">>, FullImages, {}, {}, <<>>) EXCEPT
           !.tables = schema.tables, !.columns = schema.columns,
           !.deployment_data =
               IF "deployment_data" \in schema.tables THEN @ ELSE EmptyMap] :
          schema \in OlderSchemas }
    \cup
    { [Store(<<"camA", "camB">>, images, {}, {}, <<>>) EXCEPT
           !.deployment_data = parameters] :
          images \in OpenImages, parameters \in ParameterTables }

\* the image files on disk: .jpg or .tif files, complete or with the first
\* frame of the first camera gone, or files of a type open() does not know
OpenFiles ==
    { AllFiles,
      [AllFiles EXCEPT !.ext = ".tif"],
      [AllFiles EXCEPT !.present = @ \ {<<"camA", 1>>}],
      [AllFiles EXCEPT !.ext = ".png"] }

InitOpen ==
    /\ self = NewEngine
    /\ db \in OpenStores
    /\ registry = EmptyMap
    /\ fs \in OpenFiles
    /\ last = Did("init", <<>>, "none")

NextOpen ==
    \/ \E path \in {GoodPath, MissingPath} : Open(path)
    \/ Close

SpecOpen == InitOpen /\ [][NextOpen]_vars

\* ------------------------------------------------------------ UTC offset
\* deployment_data tables: offsets that parse, one that does not, an empty
\* one, and no hours_offset_to_utc row
OffsetParameters ==
    { ("hours_offset_to_utc" :> "0") @@ ("image_file_type" :> "jpg"),
      ("hours_offset_to_utc" :> "2") @@ ("image_file_type" :> "jpg"),
      ("hours_offset_to_utc" :> "two") @@ ("image_file_type" :> "jpg"),
      ("hours_offset_to_utc" :> "") @@ ("image_file_type" :> "jpg"),
      ("image_file_type" :> "jpg") }

\* dropped tables: none, one dropped frame, a frame dropped by each camera
\* and one by both
OffsetDropped ==
    { {},
      {[number |-> MaxFrame, camera |-> "camA", time |-> <<MaxFrame, 1>>]},
      {[number |-> 1, camera |-> "camB", time |-> <<1, 2>>],
       [number |-> MaxFrame, camera |-> "camA", time |-> <<MaxFrame, 1>>],
       [number |-> MaxFrame, camera |-> "camB", time |-> <<MaxFrame, 2>>]} }

\* async tables: none, or two well-formed records
OffsetAsync ==
    { {},
      {[time |-> <<1, 1>>, sensor_id |-> "CTControl", header |-> "$CTSV", data |-> "12.1"],
       [time |-> <<MaxFrame, 2>>, sensor_id |-> "CTControl", header |-> "$CTSV", data |-> "12.0"]} }

OffsetStores ==
    { [Store(<<"camA", "camB">>, FullImages, dropped, asyncs, <<>>) EXCEPT
           !.deployment_data = parameters] :
          dropped \in OffsetDropped, asyncs \in OffsetAsync,
          parameters \in OffsetParameters }

\* query windows that keep the first frame of every camera
OffsetWindows == {<<NoneT, NoneT>>, << <<1, 0>>, <<MaxFrame, 0>> >>}

InitOffset ==
    /\ self = NewEngine
    /\ db \in OffsetStores
    /\ registry = EmptyMap
    /\ fs = AllFiles
    /\ last = Did("init", <<>>, "none")

NextOffset ==
    \/ Open(GoodPath)
    \/ Close
    \/ \E w \in OffsetWindows, returnDiscards \in BOOLEAN :
           Query(w[1], w[2], returnDiscards)

SpecOffset == InitOffset /\ [][NextOffset]_vars

\* ----------------------------------------------------- position and depth
\* getLocations(), getDepths(): the initial values of the running bounds
BoundUnsetMin == 999999
BoundUnsetMax == -999999

\* The positioning datagrams of the model, named by what the message object
\* pynmea2.parse builds from them carries: the attributes present and
\* their values.  Latitudes and longitudes are whole degrees.
FixActive == "status=A lat=57 lon=-152"
FixActiveLower == "status=a lat=54 lon=-156"
FixVoid == "status=V lat=58 lon=-151"
FixVoidQuality == "status=V quality=1 lat=61 lon=-148"
FixQualityZero == "quality=0 lat=56 lon=-150"
FixQualityOne == "quality=1 lat=59 lon=-153"
FixPlain == "lat=60 lon=-149"
NoPosition == "speed=3"
Garbage == "garbage"

LocationPayloads ==
    {FixActive, FixActiveLower, FixVoid, FixVoidQuality, FixQualityZero,
     FixQualityOne, FixPlain, NoPosition, Garbage}

\* pynmea2.parse(data): ok is FALSE when it raises; has is the set of
\* attributes hasattr finds on the message
Message(has, status, quality, latitude, longitude) ==
    [ok |-> TRUE, has |-> has, status |-> status, quality |-> quality,
     latitude |-> latitude, longitude |-> longitude]

Parse(data) ==
    CASE data = FixActive ->
             Message({"latitude", "longitude", "status"}, "A", 0, 57, -152)
      [] data = FixActiveLower ->
             Message({"latitude", "longitude", "status"}, "a", 0, 54, -156)
      [] data = FixVoid ->
             Message({"latitude", "longitude", "status"}, "V", 0, 58, -151)
      [] data = FixVoidQuality ->
             Message({"latitude", "longitude", "status", "quality"}, "V", 1, 61, -148)
      [] data = FixQualityZero ->
             Message({"latitude", "longitude", "quality"}, "", 0, 56, -150)
      [] data = FixQualityOne ->
             Message({"latitude", "longitude", "quality"}, "", 1, 59, -153)
      [] data = FixPlain ->
             Message({"latitude", "longitude"}, "", 0, 60, -149)
      [] data = NoPosition ->
             Message({"spd_over_grnd"}, "", 0, 0, 0)
      [] OTHER -> [ok |-> FALSE, has |-> {}, status |-> "", quality |-> 0,
                   latitude |-> 0, longitude |-> 0]

\* a validity test that looks at no status and no quality
AcceptedAlways(msg) == TRUE

\* the status / quality / neither branches under the position test
Accepted(msg) ==
    IF "status" \in msg.has THEN Lower(msg.status) = "a"
    ELSE IF "quality" \in msg.has THEN msg.quality > 0
    ELSE TRUE

\* the frames that have a location so far, in the order they were added
LocatedFrames(locations) == {locations[i][1] : i \in 1..Len(locations)}

\* a loop body that lets a later datagram replace the location of a frame
LocationStepLastWins(acc, imageNum, data) ==
    LET msg == Parse(data)
    IN IF ~msg.ok \/ ~({"latitude", "longitude"} \subseteq msg.has) \/ ~Accepted(msg)
       THEN acc
       ELSE [acc EXCEPT !.locations =
                Append(SelectSeq(@, LAMBDA e : e[1] # imageNum),
                       <<imageNum, <<msg.latitude, msg.longitude>> >>)]

\* the body of the loop over one header's datagrams
LocationStep(acc, imageNum, data) ==
    IF imageNum \in LocatedFrames(acc.locations) THEN acc
    ELSE LET msg == Parse(data)
         IN IF ~msg.ok THEN acc
            ELSE IF ~({"latitude", "longitude"} \subseteq msg.has) THEN acc
            ELSE IF ~Accepted(msg) THEN acc
            ELSE [acc EXCEPT
                    !.locations = Append(@, <<imageNum, <<msg.latitude, msg.longitude>> >>),
                    !.latMax = IF msg.latitude > @ THEN msg.latitude ELSE @,
                    !.latMin = IF ~(msg.latitude > acc.latMax) /\ msg.latitude < @
                               THEN msg.latitude ELSE @,
                    !.lonMax = IF msg.longitude > @ THEN msg.longitude ELSE @,
                    !.lonMin = IF ~(msg.longitude > acc.lonMax) /\ msg.longitude < @
                               THEN msg.longitude ELSE @]

\* for imageNum, data in self.sensorData[id][header].items(): the rows of
\* the join arrive in frame order, so the dict is in ascending frame order
HeaderLoop(acc, datagrams) ==
    LET frames == SortedSeq(DOMAIN datagrams)
        F[i \in 0..Len(frames)] ==
            IF i = 0 THEN acc
            ELSE LocationStep(F[i - 1], frames[i], datagrams[frames[i]])
    IN F[Len(frames)]

\* the sensor id after the case-insensitive fallback
MatchSensorID(s, locationSensorID) ==
    IF locationSensorID \in DOMAIN s.sensorData THEN locationSensorID
    ELSE LET a == IF Lower(locationSensorID) \in DOMAIN s.sensorData
                  THEN Lower(locationSensorID) ELSE locationSensorID
         IN IF Upper(a) \in DOMAIN s.sensorData THEN Upper(a) ELSE a

\* getLocations() after its query: (deploymentBounds, locations), the dict
\* as the sequence of its (frame, (lat, lon)) items
getLocations(s, locationSensorID) ==
    LET id == MatchSensorID(s, locationSensorID)
        acc0 == [latMin |-> BoundUnsetMin, latMax |-> BoundUnsetMax,
                 lonMin |-> BoundUnsetMin, lonMax |-> BoundUnsetMax,
                 locations |-> <<>>]
        headers == IF id \in DOMAIN s.headerOrder THEN s.headerOrder[id] ELSE <<>>
        F[i \in 0..Len(headers)] ==
            IF i = 0 THEN acc0
            ELSE HeaderLoop(F[i - 1], s.sensorData[id][headers[i]])
        acc == IF id \in DOMAIN s.sensorData THEN F[Len(headers)] ELSE acc0
    IN [bounds |-> << <<acc.latMin, acc.lonMin>>, <<acc.latMin, acc.lonMax>>,
                      <<acc.latMax, acc.lonMax>>, <<acc.latMax, acc.lonMin>> >>,
        locations |-> acc.locations]

\* The depth datagrams of the model: the depth is the sixth field
DepthPayload(depth) == <<"$OHPR", "1", "2", "3", "-999.0", depth, "0", "0", "0*00">>
Depth7 == "$OHPR,1,2,3,-999.0,7,0,0,0*00"
Depth15 == "$OHPR,1,2,3,-999.0,15,0,0,0*00"
Depth22 == "$OHPR,1,2,3,-999.0,22,0,0,0*00"
DepthShort == "$OHPR,1,2"
DepthText == "$OHPR,1,2,3,-999.0,abc,0,0,0*00"

DepthPayloads == {Depth7, Depth15, Depth22, DepthShort, DepthText}

\* data.split(parseChar)
Split(data, parseChar) ==
    IF parseChar # "," THEN <<data>>
    ELSE CASE data = Depth7 -> DepthPayload("7")
           [] data = Depth15 -> DepthPayload("15")
           [] data = Depth22 -> DepthPayload("22")
           [] data = DepthShort -> <<"$OHPR", "1", "2">>
           [] data = DepthText -> DepthPayload("abc")
           [] OTHER -> <<data>>

\* float(data.split(parseChar)[depthFieldNum]): <<TRUE, value>>, or
\* <<FALSE, 0>> when the index or the conversion raises
FieldFloat(data, depthFieldNum, parseChar) ==
    LET fields == Split(data, parseChar)
    IN IF depthFieldNum + 1 \in 1..Len(fields)
       THEN ParseFloat(fields[depthFieldNum + 1])
       ELSE <<FALSE, 0>>

\* a loop body that leaves out the frames whose datagram does not parse
DepthStepSkips(acc, imageNum, data, depthFieldNum, parseChar) ==
    LET f == FieldFloat(data, depthFieldNum, parseChar)
    IN IF ~f[1] THEN acc
       ELSE [acc EXCEPT !.depths = (imageNum :> PyFloat(f[2])) @@ @]

\* the body of the loop over the depth datagrams
DepthStep(acc, imageNum, data, depthFieldNum, parseChar) ==
    LET f == FieldFloat(data, depthFieldNum, parseChar)
    IN IF ~f[1]
       THEN [acc EXCEPT !.depths = (imageNum :> PyNone) @@ @]
       ELSE [acc EXCEPT
               !.depthMax = IF f[2] > @ THEN f[2] ELSE @,
               !.depthMin = IF ~(f[2] > acc.depthMax) /\ f[2] < @ THEN f[2] ELSE @,
               !.depths = (imageNum :> PyFloat(f[2])) @@ @]

\* getDepths() after its query: (depthMin, depthMax, depths)
getDepths(s, depthSensorID, depthSensorHeader, depthFieldNum, parseChar) ==
    LET acc0 == [depthMin |-> BoundUnsetMin, depthMax |-> BoundUnsetMax,
                 depths |-> EmptyMap]
        found == /\ depthSensorID \in DOMAIN s.sensorData
                 /\ depthSensorID \notin {"time", "utc_time"}
                 /\ depthSensorHeader \in DOMAIN s.sensorData[depthSensorID]
        datagrams == IF found THEN s.sensorData[depthSensorID][depthSensorHeader]
                     ELSE EmptyMap
        frames == SortedSeq(DOMAIN datagrams)
        F[i \in 0..Len(frames)] ==
            IF i = 0 THEN acc0
            ELSE DepthStep(F[i - 1], frames[i], datagrams[frames[i]],
                           depthFieldNum, parseChar)
    IN F[Len(frames)]

\* if not self.imageData: self.query()
QueryIfEmpty(s, view) ==
    IF s.imageData # EmptyMap \/ s.dbConnectionName = NoName
    THEN [self |-> s, exc |-> "none"]
    ELSE QueryBody(s, view, NoneT, NoneT, FALSE)

\* getLocations(locationSensorID)
GetLocations(locationSensorID) ==
    \E r \in {QueryIfEmpty(self, View(db, registry, self.dbConnectionName))} :
       /\ self' = r.self
       /\ last' = IF r.exc # "none"
                  THEN Did("getLocations", <<locationSensorID>>, r.exc)
                  ELSE [Did("getLocations", <<locationSensorID>>, "none") EXCEPT
                          !.ret = getLocations(r.self, locationSensorID)]
       /\ UNCHANGED <<db, registry, fs>>

\* getDepths(depthSensorID, depthSensorHeader, depthFieldNum, parseChar)
GetDepths(depthSensorID, depthSensorHeader, depthFieldNum, parseChar) ==
    \E r \in {QueryIfEmpty(self, View(db, registry, self.dbConnectionName))} :
       LET args == <<depthSensorID, depthSensorHeader, depthFieldNum, parseChar>>
       IN /\ self' = r.self
          /\ last' = IF r.exc # "none" THEN Did("getDepths", args, r.exc)
                     ELSE [Did("getDepths", args, "none") EXCEPT
                             !.ret = getDepths(r.self, depthSensorID, depthSensorHeader,
                                               depthFieldNum, parseChar)]
          /\ UNCHANGED <<db, registry, fs>>

\* one sensor_data row
SensorRow(number, sensor_id, header, data) ==
    [number |-> number, sensor_id |-> sensor_id, header |-> header, data |-> data]

\* positioning rows under two headers: the first frame has a datagram under
\* each, the last frame one under the header that comes first in the table
LocationRows(firstHeader, p1, p2, p3) ==
    LET otherHeader == IF firstHeader = "$GPRMC" THEN "$GPGGA" ELSE "$GPRMC"
    IN << SensorRow(1, "GPS", firstHeader, p1),
          SensorRow(1, "GPS", otherHeader, p2),
          SensorRow(MaxFrame, "GPS", firstHeader, p3) >>

\* one depth datagram per frame
DepthRows(payload) ==
    [n \in Frames |-> SensorRow(n, "CTControl", "$OHPR", payload[n])]

\* the stores position and depth are resolved on: any datagrams for the
\* first frame and a fix or none for the last, or any depth datagrams
ResolveStores ==
    { [Store(<<"camA", "camB">>, FullImages, {}, {}, <<>>) EXCEPT
           !.sensor_data = LocationRows(h, p1, p2, p3) \o DepthRows([n \in Frames |-> Depth15])] :
          h \in {"$GPRMC", "$GPGGA"}, p1 \in LocationPayloads,
          p2 \in LocationPayloads, p3 \in {FixActive, FixPlain, FixVoid} }
    \cup
    { [Store(<<"camA", "camB">>, FullImages, {}, {}, <<>>) EXCEPT
           !.sensor_data = DepthRows(payload) \o LocationRows("$GPRMC", FixActive, FixPlain, FixPlain)] :
          payload \in [Frames -> DepthPayloads] }

\* the whole deployment, and a window that ends before the last frame
ResolveWindows == {<<NoneT, NoneT>>, <<NoneT, <<MaxFrame, 0>> >>}

\* arguments given to getLocations and getDepths
LocationSensorIDs == {"GPS", "gps", "NAV"}
DepthArguments ==
    {<<"CTControl", "$OHPR", 5, ",">>, <<"CTControl", "$OHPR", 1, ",">>,
     <<"CTControl", "$OHPR", 5, ";">>, <<"CTControl", "$GPRMC", 5, ",">>,
     <<"GPS", "$GPRMC", 5, ",">>}

InitResolve ==
    /\ self = NewEngine
    /\ db \in ResolveStores
    /\ registry = EmptyMap
    /\ fs = AllFiles
    /\ last = Did("init", <<>>, "none")

NextResolve ==
    \/ Open(GoodPath)
    \/ \E w \in ResolveWindows : Query(w[1], w[2], FALSE)
    \/ \E id \in LocationSensorIDs : GetLocations(id)
    \/ \E a \in DepthArguments : GetDepths(a[1], a[2], a[3], a[4])

SpecResolve == InitResolve /\ [][NextResolve]_vars

\* -------------------------------------------------------- mark navigation
\* the first row of a result ordered by frame_number, rows of one frame in
\* table order: <<frame, description>>, or (None, None) without a row
FirstMark(rows, frame) ==
    IF \A i \in 1..Len(rows) : rows[i].frame_number # frame
    THEN <<PyNone, PyNone>>
    ELSE LET i == CHOOSE j \in 1..Len(rows) :
                     /\ rows[j].frame_number = frame
                     /\ \A k \in 1..(j - 1) : rows[k].frame_number # frame
         IN <<PyInt(rows[i].frame_number), PyStr(rows[i].mark_description)>>

\* a search that also returns a mark on the frame itself
NextMarkFromHere(rows, frame) ==
    LET hits == {rows[i].frame_number : i \in 1..Len(rows)} \cap {n \in Int : n >= frame}
    IN IF hits = {} THEN <<PyNone, PyNone>> ELSE FirstMark(rows, MinOf(hits))

\* where frame_number > frame ORDER BY frame_number ASC; first()
NextMark(rows, frame) ==
    LET hits == {rows[i].frame_number : i \in 1..Len(rows)} \cap {n \in Int : n > frame}
    IN IF hits = {} THEN <<PyNone, PyNone>> ELSE FirstMark(rows, MinOf(hits))

\* where frame_number < frame ORDER BY frame_number DESC; first()
PreviousMark(rows, frame) ==
    LET hits == {rows[i].frame_number : i \in 1..Len(rows)} \cap {n \in Int : n < frame}
    IN IF hits = {} THEN <<PyNone, PyNone>> ELSE FirstMark(rows, MaxOf(hits))

\* findNextMark(frame): a bare None when no connection name is set
FindNextMark(frame) ==
    /\ last' = [Did("findNextMark", <<frame>>, "none") EXCEPT
                  !.ret = IF self.dbConnectionName = NoName THEN PyNone
                          ELSE NextMark(View(db, registry, self.dbConnectionName).marks,
                                        frame)]
    /\ UNCHANGED <<self, db, registry, fs>>

\* findPreviousMark(frame)
FindPreviousMark(frame) ==
    /\ last' = [Did("findPreviousMark", <<frame>>, "none") EXCEPT
                  !.ret = IF self.dbConnectionName = NoName THEN PyNone
                          ELSE PreviousMark(View(db, registry, self.dbConnectionName).marks,
                                            frame)]
    /\ UNCHANGED <<self, db, registry, fs>>

\* marks tables: a mark on any set of frames, the rows in descending order
RECURSIVE MarkTable(_, _)
MarkTable(frames, description) ==
    IF frames = {} THEN <<>>
    ELSE LET n == MaxOf(frames)
         IN <<[frame_number |-> n, mark_description |-> description[n]]>>
            \o MarkTable(frames \ {n}, description)

FindStores ==
    { Store(<<"camA", "camB">>, FullImages, {}, {}, MarkTable(frames, description)) :
          frames \in SUBSET Frames, description \in [Frames -> Texts] }

\* the frames asked about: every frame, one before the first, one after the last
FindFrames == 0..(MaxFrame + 1)

InitFind ==
    /\ self = NewEngine
    /\ db \in FindStores
    /\ registry = EmptyMap
    /\ fs = AllFiles
    /\ last = Did("init", <<>>, "none")

NextFind ==
    \/ Open(GoodPath)
    \/ Close
    \/ \E frame \in MarkFrames : RemoveMark(frame)
    \/ \E frame \in FindFrames : FindNextMark(frame)
    \/ \E frame \in FindFrames : FindPreviousMark(frame)

SpecFind == InitFind /\ [][NextFind]_vars

\* ---------------------------------------------------- deployment summary
\* SELECT latitude FROM deployment: no row when the table has no such column
SelectLatitude(deployment) ==
    IF "latitude" \in deployment.columns THEN deployment.rows ELSE <<>>

\* the UPDATE statement as it is put together: the values and the text that
\* follows the last of them
UpdateStatement(location, depthMax) ==
    [latitude |-> location[1], longitude |-> location[2],
     max_depth |-> PyFloat(depthMax), tail |-> ")"]

\* query.exec() of the statement: SQLite rejects text after the last
\* assignment, an empty value and a column the table does not have
ExecUpdate(deployment, statement) ==
    IF \/ statement.tail # ""
       \/ PyStr("") \in {statement.latitude, statement.longitude}
       \/ ~({"latitude", "longitude", "max_depth"} \subseteq deployment.columns)
    THEN deployment
    ELSE [deployment EXCEPT !.rows =
             [i \in 1..Len(@) |-> [@[i] EXCEPT !.latitude = statement.latitude,
                                               !.longitude = statement.longitude,
                                               !.max_depth = statement.max_depth]]]

\* locFrames[int(float(len(locFrames))/2 - .5)], counted from one
MiddleIndex(n) == ((n - 1) \div 2) + 1

\* dataLoc: the location picked from the dict in the order of its keys
DataLocation(locations, fromData) ==
    IF locations = <<>> THEN [loc |-> <<PyStr(""), PyStr("")>>, exc |-> "none"]
    ELSE LET pick(i) == [loc |-> <<PyFloat(locations[i][2][1]), PyFloat(locations[i][2][2])>>,
                         exc |-> "none"]
         IN CASE Lower(fromData) = "first" -> pick(1)
              [] Lower(fromData) = "middle" -> pick(MiddleIndex(Len(locations)))
              [] Lower(fromData) = "last" -> pick(Len(locations))
              [] OTHER -> [loc |-> <<PyNone, PyNone>>, exc |-> "UnboundLocalError"]

\* the location the call works with: the list given when both entries are
\* set, otherwise its None entries filled from dataLoc
FilledLocation(s, fromData, location) ==
    IF location[1] # PyNone /\ location[2] # PyNone
    THEN [loc |-> location, exc |-> "none"]
    ELSE LET d == DataLocation(getLocations(s, "GPS").locations, fromData)
         IN [loc |-> << IF location[1] = PyNone THEN d.loc[1] ELSE location[1],
                        IF location[2] = PyNone THEN d.loc[2] ELSE location[2] >>,
             exc |-> d.exc]

\* updateDeployentMetadata(fromData, location, overwrite); location is
\* "default" for the list of the function's default argument, which the call
\* fills in place, or a list of the caller.  getDepths and getLocations
\* both start with the query of an empty snapshot; the second one finds
\* what the first one left
\* (was: the deployment table and the location list before the call;
\* ret: the UPDATE statement issued)
UpdateDeployentMetadata(fromData, location, overwrite) ==
    LET args == <<fromData, location, overwrite>>
        given == IF location = <<"default">> THEN self.locationDefault ELSE location
        before == <<db.deployment, given>>
        view == View(db, registry, self.dbConnectionName)
        did(exc) == [Did("updateDeployentMetadata", args, exc) EXCEPT !.was = before]
    IN IF \/ self.dbConnectionName = NoName
          \/ ~(SelectLatitude(view.deployment) = <<>> \/ overwrite)
       THEN /\ last' = did("none")
            /\ UNCHANGED <<self, db, registry, fs>>
       ELSE \E r \in {QueryIfEmpty(self, view)} :
              IF r.exc # "none"
              THEN /\ self' = r.self
                   /\ last' = did(r.exc)
                   /\ UNCHANGED <<db, registry, fs>>
              ELSE \E f \in {FilledLocation(r.self, fromData, given)} :
                     IF f.exc # "none"
                     THEN /\ self' = r.self
                          /\ last' = did(f.exc)
                          /\ UNCHANGED <<db, registry, fs>>
                     ELSE \E statement \in
                              {UpdateStatement(f.loc,
                                  getDepths(r.self, "CTControl", "$OHPR", 5, ",").depthMax)} :
                            /\ self' = IF location = <<"default">>
                                       THEN [r.self EXCEPT !.locationDefault = f.loc]
                                       ELSE r.self
                            /\ db' = IF Connected(registry, self.dbConnectionName)
                                     THEN [db EXCEPT !.deployment = ExecUpdate(@, statement)]
                                     ELSE db
                            /\ last' = [did("none") EXCEPT !.ret = statement]
                            /\ UNCHANGED <<registry, fs>>

\* positioning rows: one datagram per frame under one header and a second
\* datagram for the first frame under another header
SummaryRows(payload, p2) ==
    [n \in Frames |-> SensorRow(n, "GPS", "$GPRMC", payload[n])]
    \o << SensorRow(1, "GPS", "$GPGGA", p2) >>
    \o DepthRows([n \in Frames |-> IF n = 1 THEN Depth15 ELSE Depth7])

\* deployment tables: the one open() creates, without a row or with the row
\* of the deployment, its location set or not; and one whose columns have
\* the names the statements of updateDeployentMetadata use
SummaryTables ==
    { [columns |-> DeploymentColumns, rows |-> <<>>] }
    \cup { [columns |-> DeploymentColumns,
            rows |-> << [deployment_latitude |-> v, deployment_longitude |-> v,
                         max_deployment_depth |-> v] >>] : v \in {PyNone, PyFloat(50)} }
    \cup { [columns |-> {"latitude", "longitude", "max_depth"},
            rows |-> << [latitude |-> v, longitude |-> v, max_depth |-> v] >>] :
              v \in {PyNone, PyFloat(50)} }

SummaryStores ==
    { [Store(<<"camA", "camB">>, FullImages, {}, {}, <<>>) EXCEPT
           !.sensor_data = SummaryRows(payload, p2), !.deployment = table] :
          payload \in [Frames -> {FixActive, FixVoid}],
          p2 \in {FixQualityOne, Garbage}, table \in SummaryTables }

\* the location argument: left out, given, given in part
SummaryLocations ==
    { <<"default">>, <<PyFloat(10), PyFloat(20)>>, <<PyFloat(10), PyNone>> }

InitSummary ==
    /\ self = NewEngine
    /\ db \in SummaryStores
    /\ registry = EmptyMap
    /\ fs = AllFiles
    /\ last = Did("init", <<>>, "none")

NextSummary ==
    \/ Open(GoodPath)
    \/ \E w \in ResolveWindows : Query(w[1], w[2], FALSE)
    \/ \E fromData \in {"first", "MIDDLE", "last"}, location \in SummaryLocations,
          overwrite \in BOOLEAN :
           UpdateDeployentMetadata(fromData, location, overwrite)

SpecSummary == InitSummary /\ [][NextSummary]_vars

\* ------------------------------------------------------------- conversion
\* the tables convertToDatabase creates, and the columns of its images
\* table that open() would otherwise add
ConvertTables == {"cameras", "images", "dropped", "sensor_data", "deployment_data"}
ConvertColumns == { <<"images", "exposure_us">>, <<"images", "discarded">> }

\* getImageList(): the extensions the last three characters are compared with
ListedTypes == {"jpg", "tif", "tiff", "jpeg"}

\* images[i][-3:]
LastThree(name) ==
    CASE name = ".jpg" -> "jpg"
      [] name = ".jpeg" -> "peg"
      [] name = ".tif" -> "tif"
      [] name = ".tiff" -> "iff"
      [] OTHER -> name

\* getImageList(path): the keys of imageDict.  The loop runs over
\* range(nImages - 1): every file but the last of the sorted listing is
\* compared with its successor and entered
getImageList(files, camera) ==
    LET images == SortedSeq({n \in 0..(MaxFrame + 1) : <<camera, n>> \in files.present})
        nImages == Len(images)
    IN {images[i] : i \in {j \in 1..(nImages - 1) :
                              LastThree(Lower(files.ext)) \in ListedTypes}}

\* the statements of the bulk load that can come back not ok
ConvertFaults == {"none", "begin", "camera", "image", "end"}

\* the first exception of the camera loop: an INSERT INTO cameras that
\* fails (the camera is there, or the table has the columns a later open()
\* added), max() of an empty image list
RECURSIVE CameraLoopFailure(_, _, _)
CameraLoopFailure(store, files, cameras) ==
    IF cameras = <<>> THEN "none"
    ELSE IF \/ Head(cameras) \in SeqRange(store.cameras)
            \/ \E tc \in store.columns : tc[1] = "cameras"
         THEN "dbError"
         ELSE IF getImageList(files, Head(cameras)) = {} THEN "ValueError"
         ELSE CameraLoopFailure([store EXCEPT !.cameras = Append(@, Head(cameras))],
                                files, Tail(cameras))

\* the exception convertToDatabase raises before it reopens the store:
\* BEGIN TRANSACTION or an INSERT INTO cameras not ok, the camera loop,
\* reader.next() on the attitude log, END TRANSACTION not ok.  An INSERT
\* INTO images that is not ok raises inside the try of the image loop and
\* is passed over by its except
ConvertFailure(store, files, cameras, attitudeLog, fault) ==
    IF fault = "begin" \/ (fault = "camera" /\ cameras # <<>>) THEN "dbError"
    ELSE IF CameraLoopFailure(store, files, cameras) # "none"
         THEN CameraLoopFailure(store, files, cameras)
    ELSE IF attitudeLog THEN "AttributeError"
    ELSE IF fault = "end" THEN "dbError"
    ELSE "none"

\* the INSERT INTO images statements in the order of the loops: frame by
\* frame, the cameras in the order given
ImageInserts(files, cameras) ==
    LET F[j \in 0..(MaxFrame + 1)] ==
            (IF j = 0 THEN <<>> ELSE F[j - 1])
            \o SelectSeq([i \in 1..Len(cameras) |-> <<j, cameras[i]>>],
                         LAMBDA p : p[1] \in getImageList(files, p[2]))
    IN F[MaxFrame + 1]

\* the rows the image loop inserts: INSERT INTO images VALUES with six
\* values, which fails without notice on a table with more columns and on
\* a row that is there; with fault "image" the first INSERT is not ok
InsertedImages(store, files, cameras, fault) ==
    IF {tc \in store.columns : tc[1] = "images"} # ConvertColumns THEN {}
    ELSE LET all == ImageInserts(files, cameras)
             tried == IF fault = "image" /\ all # <<>> THEN Tail(all) ELSE all
         IN {ImageRow(p[2], p[1]) :
                p \in {x \in SeqRange(tried) :
                          ~\E r \in store.images :
                              r.number = x[1] /\ r.camera = x[2]}}

\* convertToDatabase(deploymentPath, cameras, labels) on the deployment
\* path; attitudeLog: logs/attitude.log exists; fault: the statement of the
\* bulk load that is not ok.  When it raises, the rows of the transaction
\* it began are not committed and "metadb" stays open
\* (was: the camera and image rows of the store before the call)
ConvertToDatabase(cameras, attitudeLog, fault) ==
    \E c \in {close(self, registry)} :
    \E created \in {[db EXCEPT !.exists = TRUE,
                               !.tables = @ \cup ConvertTables,
                               !.columns = IF "images" \in db.tables THEN @
                                           ELSE @ \cup ConvertColumns]} :
    \E exc \in {ConvertFailure(created, fs, cameras, attitudeLog, fault)} :
       LET did(e) == [Did("convertToDatabase", <<cameras, attitudeLog, fault>>, e)
                        EXCEPT !.was = <<db.cameras, db.images>>]
       IN /\ IF exc # "none"
             THEN /\ self' = [c.self EXCEPT !.deploymentPath = GoodPath]
                  /\ db' = created
                  /\ registry' = ("metadb" :> PendingConnection) @@ c.registry
                  /\ last' = did(exc)
             ELSE \E o \in {open([c.self EXCEPT !.deploymentPath = GoodPath],
                                 [created EXCEPT
                                     !.cameras = @ \o cameras,
                                     !.images = @ \cup InsertedImages(created, fs,
                                                                      cameras, fault)],
                                 ("metadb" :> ClosedConnection) @@ c.registry,
                                 fs, GoodPath)} :
                  \E q \in {QueryBody(o.self,
                                      View(o.db, o.registry, o.self.dbConnectionName),
                                      NoneT, NoneT, FALSE)} :
                     /\ self' = q.self
                     /\ db' = o.db
                     /\ registry' = o.registry
                     /\ last' = did(q.exc)
          /\ UNCHANGED fs

\* a deployment without a metadata file
BlankStore ==
    [Store(<<>>, {}, {}, {}, <<>>) EXCEPT
        !.sensor_data = <<>>, !.deployment_data = EmptyMap,
        !.deployment = [columns |-> {}, rows |-> <<>>],
        !.tables = {}, !.columns = {}, !.exists = FALSE]

\* image directories: any set of frames for each camera, as .jpg or .jpeg
ConvertFiles ==
    { [ext |-> ext, present |-> ({"camA"} \X fa) \cup ({"camB"} \X fb)] :
          ext \in {".jpg", ".jpeg"}, fa \in SUBSET Frames, fb \in SUBSET Frames }

\* the camera lists given to convertToDatabase
ConvertCameras == {<<"camA", "camB">>, <<"camB">>}

InitConvert ==
    /\ self = NewEngine
    /\ db = BlankStore
    /\ registry = EmptyMap
    /\ fs \in ConvertFiles
    /\ last = Did("init", <<>>, "none")

NextConvert ==
    \/ Open(GoodPath)
    \/ Close
    \/ Query(NoneT, NoneT, FALSE)
    \/ \E cameras \in ConvertCameras, attitudeLog \in BOOLEAN, fault \in ConvertFaults :
           ConvertToDatabase(cameras, attitudeLog, fault)

SpecConvert == InitConvert /\ [][NextConvert]_vars

\* ------------------------------------------------------------- downloader
\* CamtrawlDownloader.py and fileCopier.py.  In this part self is the
\* CamtrawlDownloader window.  Its copy workers are the records of
\* self.workers; every worker lives in a thread of its own.  A signal that
\* crosses threads is queued: an emission posts an event to the receiver's
\* thread, and the event is handled when that thread runs its event loop.
\* self.posted is the event queue of the window's thread, queue the one of a
\* worker's thread.  A worker's thread runs copyFiles from the thread's
\* started signal and enters its event loop when copyFiles has returned.
\* (emitted, abortAt and finishedEmitted record what happened; the code has
\* no such fields.)

\* the buttons of the QMessageBox of abortCopy
StandardButtons == {"Ok", "Cancel"}

\* what becomes of one file in copyFiles: copied, an IOError or os.error of
\* the copy or of the checksum, or two checksums that differ
CopyOutcomes(verify) ==
    IF verify THEN {"copied", "IOError", "MD5 Hash Error"} ELSE {"copied", "IOError"}

\* the file lists startCopy builds from the image data of a camera
DownloadFileLists == {<<>>, <<"img1.jpg">>, <<"img1.jpg", "img2.jpg">>}

DownloadCameras == {<<"camA">>, <<"camA", "camB">>}

\* CamtrawlDownloader.__init__
NewDownloader ==
    [isCopying |-> FALSE, isAborting |-> FALSE, logFile |-> "None", log |-> <<>>,
     pbDownload |-> "Start Download", cameras |-> <<>>, verify |-> FALSE,
     sourceFiles |-> EmptyMap, workerResults |-> EmptyMap,
     finishedWorkers |-> EmptyMap, workers |-> EmptyMap,
     destMetadata |-> "unset", posted |-> <<>>, pc |-> "exec",
     finishedEmitted |-> 0]

\* fileCopier.__init__ and the start of its thread: copyFiles is at the head
\* of its loop with the abort flag down
fileCopier(name, fileList, verify) ==
    [name |-> name, fileList |-> fileList, verify |-> verify, abort |-> FALSE,
     copiedFiles |-> [fileList |-> <<>>, hash |-> <<>>],
     errorFiles |-> [fileList |-> <<>>, error |-> <<>>],
     pc |-> "copyFiles", next |-> 1, queue |-> <<>>,
     emitted |-> <<>>, abortAt |-> <<>>]

\* one pass of the loop of copyFiles: the file goes to one of the two lists,
\* then the abort flag is read
copyFile(w, outcome) ==
    LET file == w.fileList[w.next]
        done == IF outcome = "copied"
                THEN [w EXCEPT !.copiedFiles.fileList = Append(@, file),
                               !.copiedFiles.hash =
                                   Append(@, IF w.verify THEN "md5" ELSE "")]
                ELSE [w EXCEPT !.errorFiles.fileList = Append(@, file),
                               !.errorFiles.error = Append(@, outcome)]
    IN [done EXCEPT !.next = @ + 1,
                    !.pc = IF w.abort THEN "break" ELSE "copyFiles"]

\* the signal copyFiles ends with
Results(w) ==
    IF ~w.abort
    THEN [signal |-> "complete", name |-> w.name,
          nCopied |-> Len(w.copiedFiles.fileList), copiedFiles |-> w.copiedFiles,
          nErrored |-> Len(w.errorFiles.fileList), errorFiles |-> w.errorFiles]
    ELSE [signal |-> "aborted", name |-> w.name]

\* a worker copies its next file
CopyFile(cam) ==
    /\ cam \in DOMAIN self.workers
    /\ self.workers[cam].pc = "copyFiles"
    /\ self.workers[cam].next <= Len(self.workers[cam].fileList)
    /\ \E outcome \in CopyOutcomes(self.workers[cam].verify) :
          /\ self' = [self EXCEPT !.workers[cam] = copyFile(@, outcome)]
          /\ last' = Did("copyFile", <<cam, outcome>>, "none")
    /\ UNCHANGED <<db, registry, fs>>

\* the end of copyFiles: complete or aborted is emitted to the window's
\* thread and the worker's thread enters its event loop
EmitResults(cam) ==
    /\ cam \in DOMAIN self.workers
    /\ \/ self.workers[cam].pc = "break"
       \/ /\ self.workers[cam].pc = "copyFiles"
          /\ self.workers[cam].next > Len(self.workers[cam].fileList)
    /\ \E r \in {Results(self.workers[cam])} :
          /\ self' = [self EXCEPT !.posted = Append(@, r),
                                  !.workers[cam].pc = "exec",
                                  !.workers[cam].emitted = Append(@, r.signal)]
          /\ last' = Did("copyFiles", <<cam>>, "none")
    /\ UNCHANGED <<db, registry, fs>>

\* the event loop of a worker's thread handles the next event posted to it:
\* abort() raises the flag, finish() emits finished, which quits the thread
WorkerEvent(cam) ==
    /\ cam \in DOMAIN self.workers
    /\ self.workers[cam].pc = "exec"
    /\ self.workers[cam].queue # <<>>
    /\ \E event \in {Head(self.workers[cam].queue)} :
          /\ self' = [self EXCEPT
                 !.workers[cam].queue = Tail(@),
                 !.workers[cam].abort = IF event = "abort" THEN TRUE ELSE @,
                 !.workers[cam].pc = IF event = "finished" THEN "quit" ELSE @]
          /\ last' = Did(event, <<cam>>, "none")
    /\ UNCHANGED <<db, registry, fs>>

\* an emission of the window's abort or finished signal: an event for every
\* worker (abortAt: the files a worker had done and where it stood when the
\* first abort was emitted)
Emit(workers, signal) ==
    [cam \in DOMAIN workers |->
        [workers[cam] EXCEPT
            !.queue = Append(@, signal),
            !.abortAt = IF signal = "abort" /\ @ = <<>>
                        THEN <<workers[cam].next - 1, workers[cam].pc>> ELSE @]]

\* startCopy on the button reading 'Start Download', up to the updateLog
\* that follows the start of the threads: the log file is opened, a worker
\* is made and started for every camera.  (updateLog runs processEvents, so
\* reports are handled inside it; the ones inside the loop over the cameras
\* find the camera at hand unfinished and do what they do later.  The paths
\* that give up before a worker exists are left out.)
StartCopy(cameras, fileLists, verify) ==
    /\ self.pc = "exec"
    /\ self.pbDownload = "Start Download"
    /\ self' = [self EXCEPT
           !.isCopying = TRUE,
           !.pbDownload = "Abort Download",
           !.cameras = cameras,
           !.verify = verify,
           !.logFile = "open",
           !.log = <<"Download started">>,
           !.sourceFiles = fileLists,
           !.workerResults = EmptyMap,
           !.finishedWorkers = [cam \in SeqRange(cameras) |-> FALSE],
           !.workers = [cam \in SeqRange(cameras) |->
                           fileCopier(cam, fileLists[cam], verify)],
           !.finishedEmitted = 0,
           !.pc = "startCopy"]
    /\ last' = Did("startCopy", <<cameras, fileLists, verify>>, "none")
    /\ UNCHANGED <<db, registry, fs>>

\* the rest of startCopy, once processEvents found no event left: the logs
\* and settings folders are copied and destMetadata is set
StartCopyRest ==
    /\ self.pc = "startCopy"
    /\ self.posted = <<>>
    /\ self' = [self EXCEPT !.destMetadata = "set", !.pc = "exec"]
    /\ last' = Did("startCopy", <<>>, "none")
    /\ UNCHANGED <<db, registry, fs>>

\* abortCopy, with the button the user picks in its message box
abortCopy(s, result) ==
    IF s.isAborting \/ ~s.isCopying THEN s
    ELSE IF result = "Cancel" THEN s
    ELSE [s EXCEPT !.isAborting = TRUE,
                   !.log = IF s.logFile # "None"
                           THEN Append(@, "Copy abort requested!") ELSE @,
                   !.workers = Emit(@, "abort")]

\* startCopy on the button reading 'Abort Download'
AbortCopy(result) ==
    /\ self.pbDownload = "Abort Download"
    /\ self' = abortCopy([self EXCEPT !.isCopying = TRUE], result)
    /\ last' = Did("abortCopy", <<result>>, "none")
    /\ UNCHANGED <<db, registry, fs>>

\* allDone of both handlers
AllDone(s) == \A cam \in DOMAIN s.finishedWorkers : s.finishedWorkers[cam]

\* the end of both handlers: the log file is closed, the window is reset
\* and finished is emitted
ResetUI(s) ==
    [s EXCEPT !.logFile = "None",
              !.pbDownload = "Start Download",
              !.isCopying = FALSE,
              !.isAborting = FALSE,
              !.workers = Emit(@, "finished"),
              !.finishedEmitted = @ + 1]

\* workerAborted(workerName)
workerAborted(s, report) ==
    LET marked == [s EXCEPT !.finishedWorkers =
                       (report.name :> TRUE) @@ s.finishedWorkers]
    IN IF ~AllDone(marked) THEN [self |-> marked, exc |-> "none"]
       ELSE IF marked.logFile = "None"
            THEN [self |-> marked, exc |-> "AttributeError"]
            ELSE [self |-> ResetUI([marked EXCEPT !.log = Append(@, "Download aborted")]),
                  exc |-> "none"]

\* the loop of workerFinished that reports the results camera by camera,
\* from camera i on: the log line of a camera is written before its
\* errors are read; errorFiles is the dict of the report at hand
ReportResults(s, errorFiles, i) ==
    LET F[k \in 0..(Len(s.cameras) - i + 1)] ==
            LET cam == s.cameras[Len(s.cameras) - k + 1]
                nSourceFiles == Len(s.sourceFiles[cam])
            IN IF k = 0 THEN [log |-> <<>>, exc |-> "none"]
               ELSE IF cam \notin DOMAIN s.workerResults
                    THEN [log |-> <<>>, exc |-> "KeyError"]
               ELSE IF /\ nSourceFiles # s.workerResults[cam].nCopied
                       /\ s.workerResults[cam].nErrors > 0
                       /\ "errorFiles" \notin DOMAIN errorFiles
                    THEN [log |-> << <<"Worker", cam>> >>, exc |-> "KeyError"]
               ELSE [log |-> << <<"Worker", cam>> >> \o F[k - 1].log,
                     exc |-> F[k - 1].exc]
    IN F[Len(s.cameras) - i + 1]

\* workerFinished(workerName, nCopied, copiedFiles, nErrored, errorFiles).
\* (The verify box is taken to be as startCopy read it.  The checksums updateMetadataHashes writes into the copied store and the
\* lists of files in the log are left out.)
workerFinished(s, report) ==
    LET marked == [s EXCEPT
            !.finishedWorkers = (report.name :> TRUE) @@ s.finishedWorkers,
            !.workerResults =
                (report.name :> [nCopied |-> report.nCopied,
                                 copiedFiles |-> report.copiedFiles,
                                 nErrors |-> report.nErrored,
                                 errorFiles |-> report.errorFiles]) @@ s.workerResults]
        results == ReportResults(marked, report.errorFiles, 1)
        reported == [marked EXCEPT
                        !.log = Append(@, "Download finished at") \o results.log]
    IN IF ~AllDone(marked) THEN [self |-> marked, exc |-> "none"]
       ELSE IF marked.logFile = "None"
            THEN [self |-> marked, exc |-> "AttributeError"]
       ELSE IF results.exc # "none"
            THEN [self |-> reported, exc |-> results.exc]
       ELSE IF marked.verify /\ marked.destMetadata = "unset"
            THEN [self |-> reported, exc |-> "AttributeError"]
       ELSE [self |-> ResetUI([reported EXCEPT !.log = Append(@, "Download finished.")]),
             exc |-> "none"]

\* the window's thread handles the next report posted to it, from its event
\* loop or from the processEvents of startCopy.  An exception ends the
\* handler where it is raised.
WorkerReport ==
    /\ self.posted # <<>>
    /\ \E report \in {Head(self.posted)} :
       \E r \in {IF report.signal = "complete"
                 THEN workerFinished([self EXCEPT !.posted = Tail(@)], report)
                 ELSE workerAborted([self EXCEPT !.posted = Tail(@)], report)} :
          /\ self' = r.self
          /\ last' = Did(IF report.signal = "complete"
                         THEN "workerFinished" ELSE "workerAborted",
                         <<report.name>>, r.exc)
    /\ UNCHANGED <<db, registry, fs>>

InitDownload ==
    /\ self = NewDownloader
    /\ db = BlankStore
    /\ registry = EmptyMap
    /\ fs = AllFiles
    /\ last = Did("init", <<>>, "none")

NextDownload ==
    \/ \E cameras \in DownloadCameras, verify \in BOOLEAN :
       \E fileLists \in [SeqRange(cameras) -> DownloadFileLists] :
           StartCopy(cameras, fileLists, verify)
    \/ StartCopyRest
    \/ \E result \in StandardButtons : AbortCopy(result)
    \/ \E cam \in CameraNames : CopyFile(cam)
    \/ \E cam \in CameraNames : EmitResults(cam)
    \/ \E cam \in CameraNames : WorkerEvent(cam)
    \/ WorkerReport

SpecDownload == InitDownload /\ [][NextDownload]_vars

\* ================================================================ claims
\* the engine holds a valid open connection to the store
StoreOpen ==
    self.dbConnectionName # NoName /\ Connected(registry, self.dbConnectionName)

\* the last operation was a query that ran past its guard on the open store
QueryRan == last.op = "query" /\ StoreOpen

\* ... and returned without raising
QueryReturned == QueryRan /\ last.exc = "none"

\* the frames of a camera that pass the discard and time clauses of the
\* last query
Kept(camera) ==
    { row.number : row \in
        { x \in db.images :
            /\ x.camera = camera
            /\ x.still_image = 1
            /\ (last.args[3] \/ x.discarded \in {"NULL", "0"})
            /\ InTimeClause(x.time, TimeClause(last.args[1], last.args[2])) } }

RECURSIVE VisitOrder(_)
\* the frames in the order the image loop meets them: camera by camera,
\* ascending within a camera
VisitOrder(cams) ==
    IF cams = <<>> THEN <<>>
    ELSE SortedSeq(Kept(Head(cams))) \o VisitOrder(Tail(cams))

LoadedFrames(camera) == DOMAIN self.imageData[camera]

\* C1: after a query that returns, imageNumbers is the ascending list of the
\* frame numbers loaded for every camera (the intersection of the cameras'
\* loaded frame sets).
C1_CommonIndexIsIntersection ==
    QueryReturned =>
        self.imageNumbers =
            SortedSeq({n \in Frames :
                          \A c \in SeqRange(self.cameras) : n \in LoadedFrames(c)})

\* C2: the marks table never holds two rows for one frame number.
C2_OneMarkRowPerFrame ==
    \A f \in Frames :
        Cardinality({i \in 1..Len(db.marks) : db.marks[i].frame_number = f}) <= 1

\* C3: on an open store, createMark(f, a) directly followed by
\* createMark(f, b) leaves exactly one mark row for f, with text b, and the
\* marks snapshot maps f to b.
C3_SecondCreateReplaces ==
    (last.op = "createMark" /\ StoreOpen /\ last.was # <<>> /\ last.was[1] = last.args[1]) =>
        /\ \E i \in 1..Len(db.marks) :
              /\ db.marks[i] = [frame_number |-> last.args[1],
                                mark_description |-> last.args[2]]
              /\ \A j \in 1..Len(db.marks) :
                    db.marks[j].frame_number = last.args[1] => j = i
        /\ last.args[1] \in DOMAIN self.marks
        /\ self.marks[last.args[1]] = last.args[2]

\* createMark(f, "x") then createMark(f, "y") has just run on an open store
C3_Witness ==
    /\ last.op = "createMark" /\ StoreOpen
    /\ last.was = <<last.args[1], "x">>
    /\ last.args[2] = "y"
    /\ self.marks[last.args[1]] = "y"

\* C4: after a query whose image loop ran, startImage is the first frame
\* number met in camera order and ascending order within a camera (and
\* stays unset when no frame is met).
C4_StartImageIsFirstSeen ==
    (QueryRan /\ \A d \in db.dropped : Parses(d.time)) =>
        self.startImage =
            IF VisitOrder(self.cameras) = <<>> THEN StartImageUnset
            ELSE VisitOrder(self.cameras)[1]

\* a later camera loaded a frame below startImage
C4_Witness ==
    /\ QueryReturned
    /\ \E c \in SeqRange(self.cameras) : \E n \in LoadedFrames(c) : n < self.startImage

\* the image loop of the last query ran over every camera to its end
ImageLoopRan ==
    QueryRan /\ \A row \in db.dropped \cup db.images : Parses(row.time)

OutsideWindow(number) == number < self.startImage \/ number > self.endImage

\* every frame that keys a sensor payload or the time / utc_time index
SensorFrames ==
    UNION { IF k \in {"time", "utc_time"} THEN DOMAIN self.sensorData[k]
            ELSE UNION {DOMAIN self.sensorData[k][h] : h \in DOMAIN self.sensorData[k]} :
            k \in DOMAIN self.sensorData }

\* C6: the snapshot a query leaves is the one the same call gives on a new
\* engine over the same store: nothing of the previous snapshot survives.
C6_QueryRebuildsSnapshot ==
    (last.op = "query" /\ self.dbConnectionName # NoName) =>
        Snapshot(self) =
            Snapshot(QueryBody(NewEngine, View(db, registry, self.dbConnectionName),
                               last.args[1], last.args[2], last.args[3]).self)

\* a query has replaced a snapshot that held a mark the new one does not
C6_Witness ==
    /\ QueryRan
    /\ last.was # <<>>
    /\ \E row \in SeqRange(db.marks) : row.frame_number \notin DOMAIN self.marks

\* a stored timestamp without its fractional part, completed
Repair(rows) ==
    {IF Parses(row.time) THEN row ELSE [row EXCEPT !.time = <<@[1], 1>>] : row \in rows}

\* C7: after a query that failed on a malformed timestamp the snapshot holds
\* nothing (the cleared state) or the complete result of the query.
C7_AllOrNothing ==
    (QueryRan /\ last.exc = BadTimeData) =>
        \/ Snapshot(self) = Snapshot(NewEngine)
        \/ Snapshot(self) =
               Snapshot(QueryBody(NewEngine,
                                  [View(db, registry, self.dbConnectionName) EXCEPT
                                      !.images = Repair(@), !.dropped = Repair(@),
                                      !.async_data = Repair(@)],
                                  last.args[1], last.args[2], last.args[3]).self)

\* C8: while no store is open, query, setDiscarded, deleteDiscardedImages,
\* createMark and removeMark raise nothing and change neither the snapshot
\* nor the store nor the files.
C8_NotOpenIsNoOp ==
    [][ ( /\ ~StoreOpen
          /\ last'.op \in {"query", "setDiscarded", "deleteDiscardedImages",
                           "createMark", "removeMark"} )
        => ( /\ last'.exc = "none"
             /\ Snapshot(self') = Snapshot(self)
             /\ db' = db
             /\ fs' = fs ) ]_vars

\* C9: right after a query every frame that keys sensor data (payloads,
\* time, utc_time) or a mark of the snapshot lies in [startImage, endImage].
C9_LoadedWithinWindow ==
    QueryRan => \A f \in SensorFrames \cup DOMAIN self.marks : ~OutsideWindow(f)

\* a query loaded a mark and sensor data and left out a stored mark and a
\* sensor row of an image outside the window
C9_Witness ==
    /\ QueryReturned
    /\ DOMAIN self.marks # {}
    /\ SensorFrames # {}
    /\ \E row \in SeqRange(db.marks) : OutsideWindow(row.frame_number)
    /\ \E sd \in SeqRange(db.sensor_data) :
          /\ OutsideWindow(sd.number)
          /\ \E im \in db.images : im.number = sd.number

DtLeq(a, b) == ~DtLess(b, a)

\* the recorded instant lies in [startTime, endTime], bounds included
InsideWindow(text, startTime, endTime) ==
    /\ startTime = NoneT \/ DtLeq(startTime, strptime(text))
    /\ endTime = NoneT \/ DtLeq(strptime(text), endTime)

\* C10: after a query that returns, a camera's imageData holds exactly its
\* still-image rows recorded inside the inclusive time window, less the
\* rows marked discarded=1 unless returnDiscards is set.
C10_ImageDataIsWindowAndDiscardFilter ==
    QueryReturned =>
        \A c \in SeqRange(self.cameras) :
            LoadedFrames(c) =
                { row.number : row \in
                    { x \in db.images :
                        /\ x.camera = c
                        /\ x.still_image = 1
                        /\ Parses(x.time)
                        /\ (last.args[3] \/ x.discarded \in {"NULL", "0"})
                        /\ InsideWindow(x.time, last.args[1], last.args[2]) } }

\* the image rows setDiscarded(startFrame, endFrame, unset) is to leave
ExpectedDiscarded(images, startFrame, endFrame, unset) ==
    { [im EXCEPT !.discarded =
           IF startFrame <= im.number /\ im.number <= endFrame
           THEN (IF unset THEN "NULL" ELSE "1") ELSE @] : im \in images }

\* C11: setDiscarded(startFrame, endFrame, unset) on an open store sets the
\* discarded marker of every image row, of every camera, whose number is
\* in [startFrame, endFrame], and changes nothing else: no other row, no
\* other table, no file, no field of the snapshot.
C11_SetDiscardedFrame ==
    [][ (last'.op = "setDiscarded" /\ StoreOpen) =>
           /\ db' = [db EXCEPT !.images =
                        ExpectedDiscarded(@, last'.args[1], last'.args[2], last'.args[3])]
           /\ self' = self
           /\ fs' = fs
           /\ registry' = registry ]_vars

\* setDiscarded has marked a range that holds rows of both cameras and
\* leaves a row out, while the snapshot still shows a marked frame as loaded
C11_Witness ==
    /\ last.op = "setDiscarded" /\ StoreOpen /\ ~last.args[3]
    /\ \A c \in CameraNames : \E im \in db.images :
           /\ im.camera = c /\ im.discarded = "1"
           /\ last.args[1] <= im.number /\ im.number <= last.args[2]
           /\ c \in DOMAIN self.imageData /\ im.number \in DOMAIN self.imageData[c]
    /\ \E im \in db.images : im.number > last.args[2] /\ im.discarded = "NULL"

\* setDiscarded(a, b) directly followed by setDiscarded(a, b, unset=True)
\* has just run on the open store
RoundTrip ==
    /\ last.op = "setDiscarded" /\ StoreOpen
    /\ last.args[3]
    /\ last.was = <<last.args[1], last.args[2], FALSE>>
    /\ last.args[1] <= last.args[2]

\* C12: after setDiscarded(a, b) then setDiscarded(a, b, unset=True) every
\* image row numbered in [a, b], on every camera, has its marker NULL, and
\* a query(returnDiscards=False) that follows loads every still image
\* among them that its time clause selects.
C12_DiscardRoundTrip ==
    RoundTrip =>
        /\ \A im \in db.images :
               (last.args[1] <= im.number /\ im.number <= last.args[2])
                   => im.discarded = "NULL"
        /\ \A w \in QueryWindows :
               LET r == QueryBody(self, View(db, registry, self.dbConnectionName),
                                  w[1], w[2], FALSE)
               IN \A im \in db.images :
                      ( /\ last.args[1] <= im.number /\ im.number <= last.args[2]
                        /\ im.still_image = 1
                        /\ InTimeClause(im.time, TimeClause(w[1], w[2])) )
                      => /\ im.camera \in DOMAIN r.self.imageData
                         /\ im.number \in DOMAIN r.self.imageData[im.camera]

\* the round trip ran over a range that held a row marked 0 before, and
\* left a marked row outside the range as it was
C12_Witness ==
    /\ RoundTrip
    /\ last.args[1] = last.args[2]
    /\ \E im \in db.images : im.number # last.args[1] /\ im.discarded = "1"
    /\ \E im \in db.images : im.number = last.args[1] /\ im.still_image = 0

\* C13: deleteDiscardedImages on an open store raises nothing, deletes no
\* row, removes no file but those of rows marked discarded=1, and leaves
\* none of those files (name + resolved extension) on disk.
C13_DeleteDiscardedCompletes ==
    [][ (last'.op = "deleteDiscardedImages" /\ StoreOpen) =>
           /\ last'.exc = "none"
           /\ db' = db
           /\ fs'.present \subseteq fs.present
           /\ (fs.present \ fs'.present) \subseteq DiscardedFiles(db.images)
           /\ (self.imageExtension = fs.ext) =>
                  fs'.present \cap DiscardedFiles(db.images) = {} ]_vars

\* an open() of an existing store has just returned
Opened == last.op = "open" /\ last.exc = "none"

\* C14: an open that directly follows a successful open and its close
\* raises nothing, issues no CREATE TABLE and no ALTER TABLE, and leaves
\* the tables, the columns and the deployment parameters as the first
\* open left them.
C14_MigrationIdempotent ==
    [][ (last'.op = "open" /\ last'.args = <<GoodPath>>
         /\ last.op = "close" /\ last.was = <<"open">>) =>
           /\ last'.exc = "none"
           /\ last'.was[1] = {} /\ last'.was[2] = {}
           /\ db'.tables = db.tables
           /\ db'.columns = db.columns
           /\ db'.deployment_data = db.deployment_data ]_vars

\* a second open has run on the migrated store, the probed image type of
\* the first open being stored
C14_Witness ==
    /\ Opened /\ last.was[3]
    /\ db.tables = AllTables /\ db.columns = AddedColumns
    /\ "image_file_type" \in DOMAIN db.deployment_data

\* C15: open only adds: every table, column and data row present before
\* is present and equal after, a CREATE TABLE is issued only for a table
\* that is absent and an ALTER TABLE ADD COLUMN only for a column that is
\* absent from its table.
C15_MigrationAdditive ==
    [][ (last'.op = "open" /\ last'.exc = "none") =>
           /\ db.tables \subseteq db'.tables
           /\ db.columns \subseteq db'.columns
           /\ db'.cameras = db.cameras /\ db'.images = db.images
           /\ db'.dropped = db.dropped /\ db'.sensor_data = db.sensor_data
           /\ db'.async_data = db.async_data /\ db'.marks = db.marks
           /\ \A k \in DOMAIN db.deployment_data :
                  /\ k \in DOMAIN db'.deployment_data
                  /\ db'.deployment_data[k] = db.deployment_data[k]
           /\ last'.was[1] \cap db.tables = {}
           /\ last'.was[2] \cap db.columns = {}
           /\ db'.tables = db.tables \cup last'.was[1]
           /\ db'.columns = db.columns \cup last'.was[2] ]_vars

\* an open has created a table and added a column on a store that held a
\* non-default parameter or an older schema with rows
C15_Witness ==
    /\ Opened
    /\ last.was[1] # {} /\ last.was[2] # {}
    /\ last.was[2] # AddedColumns
    /\ db.images # {}

\* the first non-discarded still image, in the order of the images table
FirstKeptStill(store) ==
    SelectSeqBy({im \in store.images :
                    im.discarded \in {"NULL", "0"} /\ im.still_image = 1}, NameOrder)

\* the extensions, of the four probed in order, under which the file of an
\* image row exists
ProbedTypes(files, row) ==
    {i \in 1..Len(imageTypes) :
        <<row.camera, row.number>> \in files.present /\ files.ext = imageTypes[i]}

\* C16: after a successful open the extension is (1) the stored non-empty
\* image_file_type, lowercased with a leading dot; (2) else the first
\* probed type under which the file of the first kept still image exists,
\* which is then stored as image_file_type; (3) else the empty string,
\* with nothing stored.
C16_ExtensionResolved ==
    [][ (last'.op = "open" /\ last'.exc = "none") =>
           LET dd == Migrate(db).deployment_data
               stored == IF "image_file_type" \in DOMAIN dd THEN dd["image_file_type"] ELSE ""
               stills == FirstKeptStill(db)
               types == IF stills = <<>> THEN {} ELSE ProbedTypes(fs, stills[1])
           IN IF stored # ""
              THEN /\ self'.imageExtension = WithDot(Lower(stored))
                   /\ db'.deployment_data = dd
              ELSE IF types # {}
              THEN /\ self'.imageExtension = imageTypes[MinOf(types)]
                   /\ "image_file_type" \in DOMAIN db'.deployment_data
                   /\ WithDot(db'.deployment_data["image_file_type"]) = self'.imageExtension
              ELSE /\ self'.imageExtension = ""
                   /\ db'.deployment_data = dd ]_vars

\* a datetime moved by a whole number of hours
PlusHours(dt, hours) == <<dt[1] + hours, dt[2]>>

\* the stored hours_offset_to_utc parameter is a number
OffsetIsNumber ==
    /\ "hours_offset_to_utc" \in DOMAIN db.deployment_data
    /\ db.deployment_data["hours_offset_to_utc"] \in {"0", "2"}

\* the hours the stored parameter stands for
StoredOffset ==
    IF db.deployment_data["hours_offset_to_utc"] = "2" THEN 2 ELSE 0

\* every UTC timestamp of the snapshot is its recorded timestamp plus the
\* given hours: images, dropped frames, sensor frames, async records
UtcIsRecordedPlus(hours) ==
    /\ \A c \in DOMAIN self.imageData : \A n \in DOMAIN self.imageData[c] :
           /\ \E im \in db.images :
                  /\ im.camera = c /\ im.number = n
                  /\ self.imageData[c][n][1] = strptime(im.time)
           /\ self.imageData[c][n][2] = PlusHours(self.imageData[c][n][1], hours)
    /\ \A d \in db.dropped :
           /\ d.camera \in DOMAIN self.droppedData
           /\ d.number \in DOMAIN self.droppedData[d.camera]
           /\ self.droppedData[d.camera][d.number] = PlusHours(strptime(d.time), hours)
    /\ DOMAIN self.sensorData["utc_time"] = DOMAIN self.sensorData["time"]
    /\ \A n \in DOMAIN self.sensorData["time"] :
           self.sensorData["utc_time"][n] = PlusHours(self.sensorData["time"][n], hours)
    /\ \A k \in DOMAIN self.asyncData : \A h \in DOMAIN self.asyncData[k] :
           /\ Len(self.asyncData[k][h].utc_time) = Len(self.asyncData[k][h].time)
           /\ \A i \in 1..Len(self.asyncData[k][h].time) :
                  self.asyncData[k][h].utc_time[i] =
                      PlusHours(self.asyncData[k][h].time[i], hours)

\* C17: after a query every UTC timestamp of the snapshot (images, dropped
\* frames, sensor frames, async records) is the recorded timestamp plus
\* the stored hours_offset_to_utc: two hours later for the offset "2".
C17_UtcIsRecordedPlusOffset ==
    (QueryRan /\ OffsetIsNumber) => UtcIsRecordedPlus(StoredOffset)

\* a query under the offset "2" has loaded images, a dropped frame, sensor
\* frames and async records
C17_Witness ==
    /\ QueryReturned /\ OffsetIsNumber /\ StoredOffset = 2
    /\ \E c \in DOMAIN self.imageData : \E n \in DOMAIN self.imageData[c] :
           self.imageData[c][n][2] = <<self.imageData[c][n][1][1] + 2,
                                       self.imageData[c][n][1][2]>>
    /\ DOMAIN self.droppedData # {}
    /\ DOMAIN self.sensorData["utc_time"] # {}
    /\ \E k \in DOMAIN self.asyncData : \E h \in DOMAIN self.asyncData[k] :
           self.asyncData[k][h].utc_time # <<>>

\* C18: when hours_offset_to_utc is missing or is not a number, query
\* raises nothing and every UTC timestamp equals its recorded timestamp.
C18_BadOffsetIsZero ==
    (QueryRan /\ ~OffsetIsNumber) =>
        /\ last.exc = "none"
        /\ UtcIsRecordedPlus(0)

\* a query has loaded timestamps from a store whose offset is not a number
C18_Witness ==
    /\ QueryReturned
    /\ "hours_offset_to_utc" \in DOMAIN db.deployment_data
    /\ db.deployment_data["hours_offset_to_utc"] = "two"
    /\ DOMAIN self.droppedData # {}
    /\ \E c \in DOMAIN self.imageData : self.imageData[c] # EmptyMap

\* C19: after a query nDroppedImages is the number of distinct frame
\* numbers of the dropped table, and droppedData holds for each camera
\* the numbers of its dropped rows.
C19_DroppedCountAndTable ==
    QueryRan =>
        /\ self.nDroppedImages = Cardinality({d.number : d \in db.dropped})
        /\ DOMAIN self.droppedData = {d.camera : d \in db.dropped}
        /\ \A c \in DOMAIN self.droppedData :
               DOMAIN self.droppedData[c] =
                   {d.number : d \in {x \in db.dropped : x.camera = c}}

\* the recorded time of the stored image row (camera, number)
RecordedTime(camera, number) ==
    strptime((CHOOSE im \in db.images : im.camera = camera /\ im.number = number).time)

\* C20: after a query that returns, startTime is the earliest, over the
\* cameras, of the recorded time of the camera's lowest loaded frame, and
\* endTime the latest of the recorded time of its highest loaded frame.
C20_TimespanOverCameras ==
    QueryReturned =>
        LET cams == SeqRange(self.cameras)
            firsts == {RecordedTime(c, MinOf(LoadedFrames(c))) : c \in cams}
            lasts == {RecordedTime(c, MaxOf(LoadedFrames(c))) : c \in cams}
        IN /\ self.startTime \in firsts
           /\ \A x \in firsts : DtLeq(self.startTime, x)
           /\ self.endTime \in lasts
           /\ \A x \in lasts : DtLeq(x, self.endTime)

\* a query returned a span that starts with a frame of the last camera and
\* ends with a frame of another
C20_Witness ==
    /\ QueryReturned /\ Len(self.cameras) = 2
    /\ self.startTime = RecordedTime(self.cameras[2], MinOf(LoadedFrames(self.cameras[2])))
    /\ self.startTime # RecordedTime(self.cameras[1], MinOf(LoadedFrames(self.cameras[1])))
    /\ self.endTime # RecordedTime(self.cameras[2], MaxOf(LoadedFrames(self.cameras[2])))

\* the last operation was a getLocations call that returned
LocationsReturned == last.op = "getLocations" /\ last.exc = "none"

\* the sensor id the call settled on
LocationID == MatchSensorID(self, last.args[1])

\* the datagrams loaded for a frame under the location sensor, in the order
\* the headers are iterated
DatagramsOf(f) ==
    IF LocationID \notin DOMAIN self.headerOrder THEN <<>>
    ELSE LET hs == SelectSeq(self.headerOrder[LocationID],
                             LAMBDA h : f \in DOMAIN self.sensorData[LocationID][h])
         IN [i \in 1..Len(hs) |-> self.sensorData[LocationID][hs[i]][f]]

\* the positions the returned mapping holds for a frame
LocationOf(f) ==
    {last.ret.locations[i][2] :
        i \in {j \in 1..Len(last.ret.locations) : last.ret.locations[j][1] = f}}

\* a datagram parses and passes the fix gate
PassesGate(data) ==
    LET msg == Parse(data)
    IN msg.ok /\ {"latitude", "longitude"} \subseteq msg.has /\ Accepted(msg)

PositionOf(data) == <<Parse(data).latitude, Parse(data).longitude>>

\* C21: when a frame has two or more datagrams under the location sensor,
\* its location is that of the first datagram, in iteration order, that
\* parses and passes the fix gate: later datagrams are ignored whatever
\* they hold, and a datagram that fails does not block a later one.
C21_FirstFixWins ==
    LocationsReturned =>
        \A f \in Frames :
            LET ds == DatagramsOf(f)
                good == {i \in 1..Len(ds) : PassesGate(ds[i])}
            IN Len(ds) >= 2 =>
                  /\ Cardinality({j \in 1..Len(last.ret.locations) :
                                     last.ret.locations[j][1] = f}) <= 1
                  /\ LocationOf(f) = IF good = {} THEN {}
                                     ELSE {PositionOf(ds[MinOf(good)])}

\* a frame with two valid fixes at different positions, and one whose
\* first datagram fails and whose second is a valid fix
C21_Witness ==
    /\ LocationsReturned
    /\ \E f \in Frames :
          LET ds == DatagramsOf(f)
          IN /\ Len(ds) = 2
             /\ PassesGate(ds[1]) /\ PassesGate(ds[2])
             /\ PositionOf(ds[1]) # PositionOf(ds[2])
             /\ LocationOf(f) = {PositionOf(ds[1])}

\* the fix gate as the attributes of the message decide it
GateOfFields(msg) ==
    /\ msg.ok
    /\ {"latitude", "longitude"} \subseteq msg.has
    /\ \/ "status" \in msg.has /\ msg.status \in {"a", "A"}
       \/ "status" \notin msg.has /\ "quality" \in msg.has /\ msg.quality > 0
       \/ "status" \notin msg.has /\ "quality" \notin msg.has

\* C22: a frame gets a location exactly when one of its positioning
\* datagrams parses, carries both position fields and passes the gate:
\* with a status field only an active status, otherwise with a quality field
\* only quality > 0, with neither field always; a payload that does not
\* parse sets nothing and getLocations raises nothing.
C22_FixGate ==
    last.op = "getLocations" =>
        /\ last.exc = "none"
        /\ \A f \in Frames :
              (LocationOf(f) # {}) <=>
                  \E i \in 1..Len(DatagramsOf(f)) : GateOfFields(Parse(DatagramsOf(f)[i]))

\* a call that meets a quality-0 fix and an unparseable payload for one
\* frame and locates another frame
C22_Witness ==
    /\ LocationsReturned
    /\ \E f \in Frames :
          /\ SeqRange(DatagramsOf(f)) = {FixQualityZero, Garbage}
          /\ LocationOf(f) = {}
    /\ last.ret.locations # <<>>

\* C23: whenever getLocations resolves a location, the four corners are
\* built from the minimum and maximum latitude and the minimum and maximum
\* longitude of the resolved locations.
C23_BoundsAreExtremes ==
    LocationsReturned /\ last.ret.locations # <<>> =>
        LET lats == {last.ret.locations[i][2][1] : i \in 1..Len(last.ret.locations)}
            lons == {last.ret.locations[i][2][2] : i \in 1..Len(last.ret.locations)}
        IN last.ret.bounds = << <<MinOf(lats), MinOf(lons)>>, <<MinOf(lats), MaxOf(lons)>>,
                                <<MaxOf(lats), MaxOf(lons)>>, <<MaxOf(lats), MinOf(lons)>> >>

\* the last operation was a getDepths call
DepthsReturned == last.op = "getDepths" /\ last.exc = "none"

\* the datagrams the call read
DepthDatagrams ==
    IF /\ last.args[1] \in DOMAIN self.headerOrder
       /\ last.args[2] \in DOMAIN self.sensorData[last.args[1]]
    THEN self.sensorData[last.args[1]][last.args[2]]
    ELSE EmptyMap

\* the depths that parsed
ParsedDepths ==
    {last.ret.depths[f][2] :
        f \in {g \in DOMAIN last.ret.depths : last.ret.depths[g] # PyNone}}

\* C24: whenever getDepths parses a depth, the minimum and the maximum it
\* returns are the minimum and the maximum of the parsed depths.
C24_DepthExtremes ==
    DepthsReturned /\ ParsedDepths # {} =>
        /\ last.ret.depthMin = MinOf(ParsedDepths)
        /\ last.ret.depthMax = MaxOf(ParsedDepths)

\* the snapshot without the depth datagrams whose field does not parse
WithoutUnparsed ==
    LET keep == {f \in DOMAIN DepthDatagrams :
                    FieldFloat(DepthDatagrams[f], last.args[3], last.args[4])[1]}
    IN IF DepthDatagrams = EmptyMap THEN self
       ELSE [self EXCEPT !.sensorData[last.args[1]][last.args[2]] =
                            [f \in keep |-> DepthDatagrams[f]]]

\* C25: getDepths maps the frame of every loaded datagram of the sensor
\* and header to the number in the field at the index after the split, and
\* to None when the field is missing or not a number; it raises nothing and
\* the minimum and maximum are what they are without the failing frames.
C25_DepthPerFrame ==
    last.op = "getDepths" =>
        /\ last.exc = "none"
        /\ DOMAIN last.ret.depths = DOMAIN DepthDatagrams
        /\ \A f \in DOMAIN DepthDatagrams :
              LET fields == Split(DepthDatagrams[f], last.args[4])
                  at == last.args[3] + 1
              IN last.ret.depths[f] =
                    IF at <= Len(fields) /\ ParseFloat(fields[at])[1]
                    THEN PyFloat(ParseFloat(fields[at])[2])
                    ELSE PyNone
        /\ LET clean == getDepths(WithoutUnparsed, last.args[1], last.args[2],
                                  last.args[3], last.args[4])
           IN /\ last.ret.depthMin = clean.depthMin
              /\ last.ret.depthMax = clean.depthMax

\* a call that reads a depth of 15 from one frame and a datagram without the
\* field, or with text in it, from another
C25_Witness ==
    /\ DepthsReturned
    /\ last.args = <<"CTControl", "$OHPR", 5, ",">>
    /\ \E f, g \in DOMAIN DepthDatagrams :
          /\ DepthDatagrams[f] = Depth15 /\ last.ret.depths[f] = PyFloat(15)
          /\ DepthDatagrams[g] \in {DepthShort, DepthText}
          /\ last.ret.depths[g] = PyNone

\* the frame numbers of the stored marks
StoredMarkFrames == {db.marks[i].frame_number : i \in 1..Len(db.marks)}

\* the value is a stored mark of the given frame
IsStoredMark(value, frame) ==
    \E i \in 1..Len(db.marks) :
        /\ db.marks[i].frame_number = frame
        /\ value = <<PyInt(frame), PyStr(db.marks[i].mark_description)>>

\* C26: on an open store findNextMark(f) returns the stored mark with the
\* smallest frame number strictly greater than f and findPreviousMark(f) the
\* one with the largest frame number strictly less than f; a mark at f is
\* never returned, and without such a mark the result is (None, None).
C26_NeighbouringMark ==
    /\ last.op = "findNextMark" /\ StoreOpen =>
          LET above == {n \in StoredMarkFrames : n > last.args[1]}
          IN /\ last.exc = "none"
             /\ IF above = {} THEN last.ret = <<PyNone, PyNone>>
                ELSE IsStoredMark(last.ret, MinOf(above))
    /\ last.op = "findPreviousMark" /\ StoreOpen =>
          LET below == {n \in StoredMarkFrames : n < last.args[1]}
          IN /\ last.exc = "none"
             /\ IF below = {} THEN last.ret = <<PyNone, PyNone>>
                ELSE IsStoredMark(last.ret, MaxOf(below))

\* a search from a marked frame that has a mark after it: it returns the
\* later mark and not the mark on the frame itself
C26_Witness ==
    /\ last.op = "findNextMark" /\ StoreOpen
    /\ last.args[1] \in StoredMarkFrames
    /\ Cardinality({n \in StoredMarkFrames : n >= last.args[1]}) >= 2
    /\ last.ret[1] = PyInt(last.args[1] + 1)

\* the last operation was an updateDeployentMetadata call that went past
\* its guard on the open store and returned
SummaryUpdated ==
    last.op = "updateDeployentMetadata" /\ StoreOpen /\ last.exc = "none"

\* the latitude, longitude and depth of a summary row
SummaryOf(row) ==
    IF "latitude" \in DOMAIN row
    THEN <<row.latitude, row.longitude, row.max_depth>>
    ELSE <<row.deployment_latitude, row.deployment_longitude, row.max_deployment_depth>>

\* the summary row has a latitude
LatitudeSet(deployment) ==
    \E i \in 1..Len(deployment.rows) : SummaryOf(deployment.rows[i])[1] # PyNone

\* C27: with overwrite false on a store whose summary row has a latitude
\* the call changes nothing in the store; when the latitude is not set or
\* overwrite is true it computes latitude, longitude and max depth and
\* writes them to the summary row.
C27_SummaryWrittenWhenDue ==
    SummaryUpdated =>
        IF LatitudeSet(last.was[1]) /\ ~last.args[3]
        THEN db.deployment = last.was[1]
        ELSE /\ last.ret # <<>>
             /\ \A i \in 1..Len(db.deployment.rows) :
                   SummaryOf(db.deployment.rows[i]) =
                       <<last.ret.latitude, last.ret.longitude, last.ret.max_depth>>

\* the resolved locations of the snapshot the call worked on
ResolvedLocations == getLocations(self, "GPS").locations

\* the position resolved for a frame, as the values of the statement
ResolvedAt(f) ==
    LET i == CHOOSE j \in 1..Len(ResolvedLocations) : ResolvedLocations[j][1] = f
    IN <<PyFloat(ResolvedLocations[i][2][1]), PyFloat(ResolvedLocations[i][2][2])>>

\* C28: when the location is derived from data it is picked from the
\* resolved locations in ascending frame order: 'first' the lowest frame,
\* 'last' the highest, 'middle' the element at index floor(count/2 - 0.5);
\* with no resolved location latitude and longitude are empty strings.
C28_LocationByFrameOrder ==
    SummaryUpdated /\ last.ret # <<>> /\ last.was[2] = <<PyNone, PyNone>> =>
        LET frames == SortedSeq(LocatedFrames(ResolvedLocations))
            n == Len(frames)
            used == <<last.ret.latitude, last.ret.longitude>>
        IN IF n = 0 THEN used = <<PyStr(""), PyStr("")>>
           ELSE CASE Lower(last.args[1]) = "first" -> used = ResolvedAt(frames[1])
                  [] Lower(last.args[1]) = "last" -> used = ResolvedAt(frames[n])
                  [] Lower(last.args[1]) = "middle" ->
                         used = ResolvedAt(frames[((n - 1) \div 2) + 1])

\* C29: over any sequence of open, query, convertToDatabase and close the
\* engine has at most one connection in the process-wide registry, made by
\* a successful open and removed by close; after close no connection the
\* engine made is registered or open, and the snapshot is cleared.
C29_OneConnection ==
    /\ Cardinality(DOMAIN registry) <= 1
    /\ last.op = "close" =>
          /\ registry = EmptyMap
          /\ Snapshot(self) = Snapshot(NewEngine)

\* the frame numbers of the image files in the directory of a camera
FilesOf(camera) == {n \in Frames : <<camera, n>> \in fs.present}

\* C30: after convertToDatabase the images table holds exactly one row
\* (j, camera) for every given camera and every frame number j, from 1 to
\* the highest frame number seen on any camera, for which the camera's
\* directory holds an image file numbered j, and no other row.
C30_RowPerImageFile ==
    last.op = "convertToDatabase" /\ last.exc = "none" =>
        LET cameras == SeqRange(last.args[1])
            top == MaxOf({0} \cup UNION {FilesOf(cam) : cam \in cameras})
        IN /\ {<<r.number, r.camera>> : r \in db.images} =
                  {<<j, cam>> \in (1..top) \X cameras : j \in FilesOf(cam)}
           /\ \A r1, r2 \in db.images :
                  r1.number = r2.number /\ r1.camera = r2.camera => r1 = r2

\* C31: when a step of the bulk load fails (the start of the transaction,
\* the insert of a camera row, the insert of an image row, the end of the
\* transaction) convertToDatabase raises to the caller, and the store holds
\* the camera and image rows it held before.
C31_FailedLoadRaises ==
    last.op = "convertToDatabase" /\ last.args[3] # "none" =>
        /\ last.exc # "none"
        /\ db.cameras = last.was[1]
        /\ db.images = last.was[2]

\* C32: after removeMark(f) returns on an open store, the store holds no
\* mark row for f and the snapshot has no entry for f.
C32_RemoveMarkRemoves ==
    last.op = "removeMark" /\ StoreOpen =>
        /\ \A i \in 1..Len(db.marks) : db.marks[i].frame_number # last.args[1]
        /\ last.args[1] \notin DOMAIN self.marks

\* a query has returned since the snapshot was last cleared
SnapshotLoaded == StoreOpen /\ self.startTime # NoneT

\* C33: between two queries, after any createMark and removeMark calls,
\* the marks snapshot is what a fresh query would load: the marks of the
\* store whose frame number is in [startImage, endImage], each with its
\* stored text.
C33_MarksAsFreshQuery ==
    SnapshotLoaded /\ last.op \in {"createMark", "removeMark"} =>
        /\ DOMAIN self.marks =
               {f \in StoredMarkFrames : self.startImage <= f /\ f <= self.endImage}
        /\ \A f \in DOMAIN self.marks :
               \A i \in 1..Len(db.marks) :
                   db.marks[i].frame_number = f =>
                       db.marks[i].mark_description = self.marks[f]

\* C34: after every query that loads an image, startImage <= endImage and
\* every frame number loaded for any camera lies in [startImage, endImage].
C34_WindowHoldsLoadedFrames ==
    QueryReturned /\ (\E c \in SeqRange(self.cameras) : LoadedFrames(c) # {}) =>
        /\ self.startImage <= self.endImage
        /\ \A c \in SeqRange(self.cameras) :
               \A n \in LoadedFrames(c) :
                   self.startImage <= n /\ n <= self.endImage

\* no timestamp of the store is malformed
TimestampsParse ==
    /\ \A x \in db.images : Parses(x.time)
    /\ \A x \in db.dropped : Parses(x.time)
    /\ \A x \in db.async_data : Parses(x.time)

\* C35: query on an open store returns without raising when no stored
\* timestamp is malformed, also without cameras and image rows and when a
\* known camera has no frame that passes the filters; such a camera gets an
\* empty image mapping.
C35_QueryCompletes ==
    QueryRan /\ TimestampsParse =>
        /\ last.exc = "none"
        /\ \A c \in SeqRange(self.cameras) : LoadedFrames(c) = Kept(c)

\* a call of updateDeployentMetadata without a location that issued its UPDATE
SummaryByDefault ==
    /\ last.op = "updateDeployentMetadata"
    /\ last.args[2] = <<"default">>
    /\ last.exc = "none"
    /\ last.ret # <<>>

\* C36: the location written by a call without an explicit location is the
\* one the loaded snapshot and the from argument give, whatever earlier
\* calls wrote, and the call leaves the default location list as it was
\* defined, [None, None].
C36_LocationFromSnapshotOnly ==
    SummaryByDefault =>
        /\ \E f \in {FilledLocation(self, last.args[1], <<PyNone, PyNone>>)} :
              /\ last.ret.latitude = f.loc[1]
              /\ last.ret.longitude = f.loc[2]
        /\ self.locationDefault = <<PyNone, PyNone>>
        /\ last.was[2] = <<PyNone, PyNone>>

\* every worker of the download has emitted its last signal and the
\* window has handled every report
AllReported ==
    /\ self.cameras # <<>>
    /\ \A cam \in DOMAIN self.workers : self.workers[cam].emitted # <<>>
    /\ self.posted = <<>>

\* the window after the all-done handling
DownloadIdle ==
    /\ ~self.isCopying
    /\ ~self.isAborting
    /\ self.logFile = "None"
    /\ self.pbDownload = "Start Download"
    /\ self.log # <<>>
    /\ Last(self.log) \in {"Download finished.", "Download aborted"}

\* C37: whatever the number of workers and the order of their reports, the
\* all-done handling (final log line written and the log closed, button
\* back to 'Start Download', isCopying and isAborting cleared, finished
\* emitted) happens exactly once in a download: never twice, not before
\* every worker has reported, and it has happened when the last report has
\* been handled.
C37_AllDoneOncePerDownload ==
    /\ self.finishedEmitted <= 1
    /\ self.finishedEmitted = 1 =>
          /\ DownloadIdle
          /\ \A cam \in DOMAIN self.workers :
                self.workers[cam].emitted # <<>> /\ self.finishedWorkers[cam]
    /\ AllReported => self.finishedEmitted = 1 /\ DownloadIdle

\* the number of times a file is in a list
Occurrences(list, file) == Cardinality({i \in 1..Len(list) : list[i] = file})

\* C39: a worker that is in its loop with files left when the window emits
\* abort starts no file after the one at hand and ends with one signal,
\* aborted; a worker no abort was emitted to ends with one signal,
\* complete, and every file of its list is once in one of the copied list
\* and the error list.
C39_AbortStopsWorker ==
    \A cam \in DOMAIN self.workers :
        \E w \in {self.workers[cam]} :
            /\ Len(w.emitted) <= 1
            /\ (/\ w.abortAt # <<>>
                /\ w.abortAt[2] = "copyFiles"
                /\ w.abortAt[1] < Len(w.fileList)) =>
                   /\ w.next - 1 <= w.abortAt[1] + 1
                   /\ w.emitted \in {<<>>, <<"aborted">>}
            /\ (w.abortAt = <<>> /\ w.emitted # <<>>) =>
                   /\ w.emitted = <<"complete">>
                   /\ \A file \in SeqRange(w.fileList) :
                         Occurrences(w.copiedFiles.fileList, file)
                             + Occurrences(w.errorFiles.fileList, file) = 1

====
